---- MODULE Spec2Model ----
(***************************************************************************)
(* A model of sdf-builder's frame-transform engine: the vector /           *)
(* quaternion / rotation-matrix algebra, Posable, PosableGroup, Structure  *)
(* pose delegation and Posable.align.                                      *)
(*                                                                         *)
(* Numbers.  The program computes in floating point; the model computes    *)
(* the same expressions exactly, over the rationals it can represent:      *)
(*   - a Vector3 is a triple of integers;                                  *)
(*   - a Quaternion is a 4-tuple of integers <<w, x, y, z>> standing for   *)
(*     the unit quaternion (w, x, y, z) / sqrt(w^2 + x^2 + y^2 + z^2),     *)
(*     kept primitive (the gcd of its components is 1), so that two        *)
(*     tuples are equal exactly when the unit quaternions are.  The 48     *)
(*     tuples of squared norm 1, 2 and 4 are the rotations that map the    *)
(*     coordinate axes onto one another (quarter and half turns about an   *)
(*     axis and thirds of a turn about a diagonal), which is the set the   *)
(*     operations below are closed under;                                  *)
(*   - an angle is a whole number of quarter turns (k stands for k*pi/2);  *)
(*   - a RotationMatrix is its upper-left 3x3 block, a triple of rows.     *)
(*   - a mass, a shape dimension and an entry of an inertia tensor is a   *)
(*     rational <<n, d>> in lowest terms with d > 0 (dimensions and masses  *)
(*     given to the program are whole numbers).                             *)
(* The comparisons with EPSILON are done on squares, without rounding.     *)
(***************************************************************************)
EXTENDS Integers, Sequences, FiniteSets, TLC

(***************************************************************************)
(* Bounds of the model.                                                    *)
(***************************************************************************)
\* number of calls in one run
MaxSteps == 2
\* direction vectors (normals, tangents, axes) have length 1..MaxLen
MaxLen == 2

(***************************************************************************)
(* Program constants.                                                      *)
(***************************************************************************)
\* EPSILON = 1e-5 is 1 / InvEpsilon
InvEpsilon == 100000
OPPOSITE == -1
PARALLEL == 1
NOT_PARALLEL == 0

(***************************************************************************)
(* Integer helpers.                                                        *)
(***************************************************************************)
Abs(n) == IF n < 0 THEN -n ELSE n

RECURSIVE GCD(_, _)
GCD(a, b) == IF b = 0 THEN a ELSE GCD(b, a % b)

ISqrt(n) == CHOOSE s \in 0..n : s * s <= n /\ (s + 1) * (s + 1) > n

(***************************************************************************)
(* Vector3.                                                                *)
(***************************************************************************)
Zero3 == <<0, 0, 0>>

\* Vector3.__add__
VAdd(a, b) == <<a[1] + b[1], a[2] + b[2], a[3] + b[3]>>

\* Vector3.__sub__
VSub(a, b) == <<a[1] - b[1], a[2] - b[2], a[3] - b[3]>>

\* VectorBase.__neg__
VNeg(a) == <<-a[1], -a[2], -a[3]>>

\* Vector3.dot
Dot(a, b) == a[1] * b[1] + a[2] * b[2] + a[3] * b[3]

\* Vector3.cross
Cross(a, b) == <<a[2] * b[3] - a[3] * b[2],
                 a[3] * b[1] - a[1] * b[3],
                 a[1] * b[2] - a[2] * b[1]>>

\* the square of VectorBase.norm
Norm2(a) == Dot(a, a)

\* VectorBase.normalize: self.data /= self.norm divides by the method norm
\* itself, not by its value, which is a TypeError for every vector
normalize(a) == [err |-> "TypeError", out |-> a]

\* data / norm of the zero vector is 0 / 0 in every component: numpy gives
\* nan and raises nothing
normalized_nan(a) == Norm2(a) = 0

\* VectorBase.normalized: data / norm.  Exact when the norm is a whole
\* number dividing every component, which is so for every vector along a
\* coordinate axis; the actions draw directions from that set only.  The
\* vector is nan in every component when normalized_nan(a).
normalized(a) ==
    LET s == ISqrt(Norm2(a))
    IN  IF s > 0 /\ s * s = Norm2(a)
           /\ a[1] % s = 0 /\ a[2] % s = 0 /\ a[3] % s = 0
        THEN <<a[1] \div s, a[2] \div s, a[3] \div s>>
        ELSE a

(***************************************************************************)
(* math/__init__.py: the epsilon tests.  With d = a . b and                *)
(* P = |a|^2 |b|^2 (so that the dot product of the normalized vectors is   *)
(* d / sqrt(P)), for non-zero a and b:                                     *)
(*    |d / sqrt(P)| <= EPSILON      <=>  d^2 * InvEpsilon^2 <= P           *)
(*    d / sqrt(P) >= 1 - EPSILON    <=>  d > 0 /\                          *)
(*                       (P - d^2) * InvEpsilon^2 <= P * (2*InvEpsilon - 1)*)
(* and c * E^2 <= X is c <= (X \div E) \div E for whole numbers.  The     *)
(* second test is c * E^2 + P <= 2 * P * E with c = P - d^2, which is      *)
(* c * E + ceiling(P / E) <= 2 * P; it is made in that form to stay within *)
(* the integers of the checker.  When a or b is the zero vector the dot    *)
(* product is nan, and every comparison with nan is false.                 *)
(***************************************************************************)
DotWithin(c, X) == c <= (X \div InvEpsilon) \div InvEpsilon

\* c * InvEpsilon^2 <= P * (2 * InvEpsilon - 1)
NearOne(c, P) ==
    /\ c <= (2 * P) \div InvEpsilon
    /\ c * InvEpsilon + P \div InvEpsilon
          + (IF P % InvEpsilon > 0 THEN 1 ELSE 0) <= 2 * P

\* vector_parallellism that takes only vectors along one line for parallel
vector_parallellism_Exact(a, b) ==
    LET d == Dot(normalized(a), normalized(b))
        P == Norm2(normalized(a)) * Norm2(normalized(b))
    IN  IF normalized_nan(a) \/ normalized_nan(b) THEN NOT_PARALLEL
        ELSE IF d < 0 /\ P = d * d THEN OPPOSITE
        ELSE IF d > 0 /\ P = d * d THEN PARALLEL
        ELSE NOT_PARALLEL

vector_parallellism(a, b) ==
    LET d == Dot(normalized(a), normalized(b))
        P == Norm2(normalized(a)) * Norm2(normalized(b))
        near == NearOne(P - d * d, P)
    IN  IF normalized_nan(a) \/ normalized_nan(b) THEN NOT_PARALLEL
        ELSE IF d < 0 /\ near THEN OPPOSITE
        ELSE IF d > 0 /\ near THEN PARALLEL
        ELSE NOT_PARALLEL

vectors_parallel(a, b) == vector_parallellism(a, b) = PARALLEL

vectors_orthogonal(a, b) ==
    LET d == Dot(normalized(a), normalized(b))
        P == Norm2(normalized(a)) * Norm2(normalized(b))
    IN  ~normalized_nan(a) /\ ~normalized_nan(b) /\ DotWithin(d * d, P)

(***************************************************************************)
(* Quaternion.                                                             *)
(***************************************************************************)
QIdentity == <<1, 0, 0, 0>>

QNorm2(q) == q[1] * q[1] + q[2] * q[2] + q[3] * q[3] + q[4] * q[4]

\* the primitive tuple on the ray of q: the same unit quaternion
QReduce(q) ==
    LET g == GCD(GCD(Abs(q[1]), Abs(q[2])), GCD(Abs(q[3]), Abs(q[4])))
    IN  IF g = 0 THEN q
        ELSE <<q[1] \div g, q[2] \div g, q[3] \div g, q[4] \div g>>

\* the Hamilton product with its operands exchanged
QMul_Reversed(a, b) ==
    QReduce(<<b[1] * a[1] - b[2] * a[2] - b[3] * a[3] - b[4] * a[4],
              b[1] * a[2] + b[2] * a[1] + b[3] * a[4] - b[4] * a[3],
              b[1] * a[3] - b[2] * a[4] + b[3] * a[1] + b[4] * a[2],
              b[1] * a[4] + b[2] * a[3] - b[3] * a[2] + b[4] * a[1]>>)

\* Quaternion.__mul__(Quaternion): the Hamilton product
QMul(a, b) ==
    QReduce(<<a[1] * b[1] - a[2] * b[2] - a[3] * b[3] - a[4] * b[4],
              a[1] * b[2] + a[2] * b[1] + a[3] * b[4] - a[4] * b[3],
              a[1] * b[3] - a[2] * b[4] + a[3] * b[1] + a[4] * b[2],
              a[1] * b[4] + a[2] * b[3] - a[3] * b[2] + a[4] * b[1]>>)

\* Quaternion.conjugated
conjugated(q) == <<q[1], -q[2], -q[3], -q[4]>>

\* Quaternion.get_matrix: the rotation matrix of the unit quaternion
get_matrix(q) ==
    LET w == q[1]  x == q[2]  y == q[3]  z == q[4]
        n == QNorm2(q)
    IN  IF n = 0 THEN <<<<1, 0, 0>>, <<0, 1, 0>>, <<0, 0, 1>>>>
        ELSE <<
          <<(w*w + x*x - y*y - z*z) \div n, (2 * (x*y - w*z)) \div n,
            (2 * (x*z + w*y)) \div n>>,
          <<(2 * (x*y + w*z)) \div n, (w*w - x*x + y*y - z*z) \div n,
            (2 * (y*z - w*x)) \div n>>,
          <<(2 * (x*z - w*y)) \div n, (2 * (y*z + w*x)) \div n,
            (w*w - x*x - y*y + z*z) \div n>> >>

\* RotationMatrix.__mul__(Vector3)
MApply(m, v) == <<Dot(m[1], v), Dot(m[2], v), Dot(m[3], v)>>

\* Quaternion.__mul__(Vector3): rotate v by q
QRotate(q, v) == MApply(get_matrix(q), v)

\* Quaternion.from_angle_axis / new_rotate_axis, for an angle of k quarter
\* turns: (cos(k*pi/4), sin(k*pi/4) * axis / |axis|), a zero axis giving
\* the real part alone.
HalfCos(k) == <<1, 1, 0, -1, -1, -1, 0, 1>>[(k % 8) + 1]
HalfSin(k) == <<0, 1, 1, 1, 0, -1, -1, -1>>[(k % 8) + 1]

from_angle_axis(k, axis) ==
    LET u == normalized(axis)
        s == IF Norm2(axis) = 0 THEN 0 ELSE HalfSin(k)
    IN  QReduce(<<HalfCos(k), s * u[1], s * u[2], s * u[3]>>)

(***************************************************************************)
(* RotationMatrix.                                                         *)
(***************************************************************************)
MIdentity == <<<<1, 0, 0>>, <<0, 1, 0>>, <<0, 0, 1>>>>

\* r[0:3], r[4:7], r[8:11] = x, y, z: assignment by columns
MColumns(x, y, z) == <<<<x[1], y[1], z[1]>>,
                       <<x[2], y[2], z[2]>>,
                       <<x[3], y[3], z[3]>>>>

\* RotationMatrix.transpose
MTranspose(m) == MColumns(m[1], m[2], m[3])

\* RotationMatrix.__mul__(RotationMatrix)
MMul(a, b) ==
    LET bt == MTranspose(b)
    IN  <<MApply(bt, a[1]), MApply(bt, a[2]), MApply(bt, a[3])>>

\* RotationMatrix.get_quaternion: the unit quaternion q with
\* get_matrix(q) = m, real part not negative.  From the trace when it is
\* positive, else from the largest diagonal entry.
get_quaternion(m) ==
    LET tr == m[1][1] + m[2][2] + m[3][3]
        raw == IF tr > 0
               THEN <<1 + tr, m[3][2] - m[2][3], m[1][3] - m[3][1],
                      m[2][1] - m[1][2]>>
               ELSE IF m[1][1] > m[2][2] /\ m[1][1] > m[3][3]
               THEN <<m[3][2] - m[2][3], 1 + m[1][1] - m[2][2] - m[3][3],
                      m[2][1] + m[1][2], m[1][3] + m[3][1]>>
               ELSE IF m[2][2] > m[3][3]
               THEN <<m[1][3] - m[3][1], m[2][1] + m[1][2],
                      1 + m[2][2] - m[1][1] - m[3][3], m[3][2] + m[2][3]>>
               ELSE <<m[2][1] - m[1][2], m[1][3] + m[3][1],
                      m[3][2] + m[2][3], 1 + m[3][3] - m[1][1] - m[2][2]>>
        pos == IF raw[1] < 0 THEN <<-raw[1], -raw[2], -raw[3], -raw[4]>>
               ELSE raw
    IN  QReduce(pos)

(***************************************************************************)
(* The objects.  A run works on one fixed collection of objects, each of   *)
(* one class:                                                              *)
(*   link, link2, child1, child2, grandchild   Link (a plain Posable)      *)
(*   group, inner, sgroup                      PosableGroup                *)
(*   joint                 a Posable whose PARENT_FRAME is False           *)
(*   elem                  an Element that is not a Posable                *)
(*   collision, visual     Structure (Collision, Visual)                   *)
(*   geometry, geometry2   Geometry (a plain Posable)                      *)
(*   box, sub1, sub2, sub3 Box                                             *)
(*   cylinder              Cylinder                                        *)
(*   sphere                Sphere                                          *)
(*   compound              CompoundGeometry (a PosableGroup)               *)
(***************************************************************************)
Compounds == {"compound", "nested"}
Groups == {"group", "inner", "sgroup"} \cup Compounds
Structures == {"collision", "visual"}
Geometries == {"geometry", "geometry2"}
Boxes == {"box", "sub1", "sub2", "sub3"}
Cylinders == {"cylinder"}
Spheres == {"sphere"}
Shapes == Boxes \cup Cylinders \cup Spheres
Links == {"link", "link2"}
Plain == {"link", "link2", "child1", "child2", "grandchild", "joint"}
             \cup Geometries \cup Shapes
Posables == Plain \cup Groups \cup Structures
Nodes == Posables \cup {"elem"}

\* isinstance(n, Posable)
IsPosable(n) == n \in Posables

\* Posable.PARENT_FRAME
PARENT_FRAME(n) == n # "joint"

Vec == Int \X Int \X Int

VARIABLES
    pose,       \* pose[n]: the Pose object of posable n (position, rotation)
    elements,   \* elements[n]: Element.elements, the child list of n
    geometry,   \* geometry[s]: Structure.geometry of structure s
    shape,      \* shape[g]: size, radius and length of shape g
    geometries, \* geometries[c]: CompoundGeometry.geometries of c
    inertial,   \* inertial[l]: Link.inertial of link l
    hist,       \* the calls made so far, each with its arguments and outcome
    trail       \* trail[i]: pose before call i

vars == <<pose, elements, geometry, shape, geometries, inertial, hist, trail>>

\* Pose.__init__: zero position and identity rotation
NewPose == [position |-> Zero3, rotation |-> QIdentity]

(***************************************************************************)
(* Posable, PosableGroup and Structure.  Every operation takes the pose    *)
(* store ps it works on and yields the store it leaves.                    *)
(***************************************************************************)
RECURSIVE set_position(_, _, _)
RECURSIVE set_rotation(_, _, _)
RECURSIVE TranslateEach(_, _, _, _)
RECURSIVE RotateEach(_, _, _, _, _, _)

\* get_position of a Structure that has no override of its own
get_position_Own(ps, n) == ps[n].position

\* Posable.get_position, Structure.get_position
get_position(ps, n) ==
    IF n \in Structures THEN ps[geometry[n]].position ELSE ps[n].position

\* Posable.get_rotation, Structure.get_rotation
get_rotation(ps, n) ==
    IF n \in Structures THEN ps[geometry[n]].rotation ELSE ps[n].rotation

\* Posable.set_position
Posable_set_position(ps, n, position) ==
    [ps EXCEPT ![n].position = position]

\* Posable.set_rotation
Posable_set_rotation(ps, n, rotation) ==
    [ps EXCEPT ![n].rotation = rotation]

\* translate taking the translation in the posable's own frame
translate_Local(ps, n, translation) ==
    set_position(ps, n, VAdd(get_position(ps, n),
                             QRotate(get_rotation(ps, n), translation)))

\* Posable.translate
translate(ps, n, translation) ==
    set_position(ps, n, VAdd(get_position(ps, n), translation))

\* Posable.rotate
rotate(ps, n, rotation) ==
    set_rotation(ps, n, QMul(rotation, get_rotation(ps, n)))

\* Posable.to_parent_direction
to_parent_direction(ps, n, vec) == QRotate(get_rotation(ps, n), vec)

\* Posable.to_local_direction
to_local_direction(ps, n, vec) ==
    QRotate(conjugated(get_rotation(ps, n)), vec)

\* Posable.to_parent_frame
to_parent_frame(ps, n, vec) ==
    VAdd(QRotate(get_rotation(ps, n), vec), get_position(ps, n))

\* to_local_frame with the rotation applied before the subtraction
to_local_frame_RotateFirst(ps, n, vec) ==
    VSub(QRotate(conjugated(get_rotation(ps, n)), vec), get_position(ps, n))

\* Posable.to_local_frame
to_local_frame(ps, n, vec) ==
    QRotate(conjugated(get_rotation(ps, n)), VSub(vec, get_position(ps, n)))

\* rotate_around that overwrites the rotation instead of composing with it
rotate_around_Absolute(ps, n, axis, angle, relative_to_child) ==
    LET ax == IF relative_to_child THEN to_parent_direction(ps, n, axis)
              ELSE axis
    IN  set_rotation(ps, n, from_angle_axis(angle, ax))

\* rotate_around that takes the axis as given, whatever relative_to_child
rotate_around_ParentAxis(ps, n, axis, angle, relative_to_child) ==
    set_rotation(ps, n, QMul(from_angle_axis(angle, axis),
                             get_rotation(ps, n)))

\* Posable.rotate_around
rotate_around(ps, n, axis, angle, relative_to_child) ==
    LET ax == IF relative_to_child THEN to_parent_direction(ps, n, axis)
              ELSE axis
        quat == from_angle_axis(angle, ax)
    IN  set_rotation(ps, n, QMul(quat, get_rotation(ps, n)))

\* get_affected_posables that does not look at PARENT_FRAME
get_affected_posables_All(n) == SelectSeq(elements[n], IsPosable)

\* PosableGroup.get_affected_posables
get_affected_posables(n) ==
    SelectSeq(elements[n], LAMBDA c : IsPosable(c) /\ PARENT_FRAME(c))

\* the loop of PosableGroup.set_position that moves the first child only
TranslateEach_FirstOnly(ps, posables, i, translation) ==
    IF i > Len(posables) \/ i > 1 THEN ps
    ELSE translate(ps, posables[i], translation)

\* the loop of PosableGroup.set_position, from child i on
TranslateEach(ps, posables, i, translation) ==
    IF i > Len(posables) THEN ps
    ELSE TranslateEach(translate(ps, posables[i], translation),
                       posables, i + 1, translation)

\* PosableGroup.set_position translating the children by the new position
PosableGroup_set_position_Absolute(ps, n, position) ==
    Posable_set_position(
        TranslateEach(ps, get_affected_posables(n), 1, position),
        n, position)

\* PosableGroup.set_position
PosableGroup_set_position(ps, n, position) ==
    LET translation == VSub(position, get_position(ps, n))
        posables == get_affected_posables(n)
    IN  Posable_set_position(TranslateEach(ps, posables, 1, translation),
                             n, position)

\* the loop body with the new position left relative to the group
RotateChild_Relative(ps, c, root_position, inv_rotation, rotation) ==
    LET orig_position ==
            QRotate(inv_rotation, VSub(get_position(ps, c), root_position))
        orig_rotation == QMul(inv_rotation, get_rotation(ps, c))
    IN  set_rotation(set_position(ps, c, QRotate(rotation, orig_position)),
                     c, QMul(rotation, orig_rotation))

\* the loop body that writes the pose of the child itself and of nothing
\* the child holds
RotateChild_Plain(ps, c, root_position, inv_rotation, rotation) ==
    LET orig_position ==
            QRotate(inv_rotation, VSub(get_position(ps, c), root_position))
        orig_rotation == QMul(inv_rotation, get_rotation(ps, c))
        new_position == VAdd(QRotate(rotation, orig_position), root_position)
        new_rotation == QMul(rotation, orig_rotation)
    IN  Posable_set_rotation(Posable_set_position(ps, c, new_position),
                             c, new_rotation)

\* the body of the loop of PosableGroup.set_rotation, for one child
RotateChild(ps, c, root_position, inv_rotation, rotation) ==
    LET orig_position ==
            QRotate(inv_rotation, VSub(get_position(ps, c), root_position))
        orig_rotation == QMul(inv_rotation, get_rotation(ps, c))
        new_position == VAdd(QRotate(rotation, orig_position), root_position)
        new_rotation == QMul(rotation, orig_rotation)
    IN  set_rotation(set_position(ps, c, new_position), c, new_rotation)

\* the loop of PosableGroup.set_rotation, from child i on
RotateEach(ps, posables, i, root_position, inv_rotation, rotation) ==
    IF i > Len(posables) THEN ps
    ELSE RotateEach(RotateChild(ps, posables[i], root_position,
                                inv_rotation, rotation),
                    posables, i + 1, root_position, inv_rotation, rotation)

\* PosableGroup.set_rotation that does not undo the group's old rotation
PosableGroup_set_rotation_NoInverse(ps, n, rotation) ==
    Posable_set_rotation(
        RotateEach(ps, get_affected_posables(n), 1, get_position(ps, n),
                   QIdentity, rotation),
        n, rotation)

\* PosableGroup.set_rotation
PosableGroup_set_rotation(ps, n, rotation) ==
    LET root_position == get_position(ps, n)
        inv_rotation == conjugated(get_rotation(ps, n))
        posables == get_affected_posables(n)
    IN  Posable_set_rotation(
            RotateEach(ps, posables, 1, root_position, inv_rotation, rotation),
            n, rotation)

\* set_position as dispatched on the class of n
set_position(ps, n, position) ==
    IF n \in Structures THEN set_position(ps, geometry[n], position)
    ELSE IF n \in Groups THEN PosableGroup_set_position(ps, n, position)
    ELSE Posable_set_position(ps, n, position)

\* set_rotation as dispatched on the class of n
set_rotation(ps, n, rotation) ==
    IF n \in Structures THEN set_rotation(ps, geometry[n], rotation)
    ELSE IF n \in Groups THEN PosableGroup_set_rotation(ps, n, rotation)
    ELSE Posable_set_rotation(ps, n, rotation)

(***************************************************************************)
(* Posable.align.  The outcome is the pose store left behind and the       *)
(* error raised, if any.                                                   *)
(***************************************************************************)
\* the six vectors in the local frames (align, lines 218-227)
AlignLocal(ps, self, my, my_normal, my_tangent, at, at_normal, at_tangent, of, relative_to_child) ==
    IF relative_to_child
    THEN [my |-> my, my_normal |-> my_normal, my_tangent |-> my_tangent,
          at |-> at, at_normal |-> at_normal, at_tangent |-> at_tangent]
    ELSE [my |-> to_local_frame(ps, self, my),
          my_normal |-> to_local_direction(ps, self, my_normal),
          my_tangent |-> to_local_direction(ps, self, my_tangent),
          at |-> to_local_frame(ps, of, at),
          at_normal |-> to_local_direction(ps, of, at_normal),
          at_tangent |-> to_local_direction(ps, of, at_tangent)]

\* the rotation align sets (lines 235-264): r2 * transpose(r1)
AlignRotation(ps, self, my_normal, my_tangent, at_normal, at_tangent, of) ==
    LET my_x == normalized(to_parent_direction(ps, self, my_normal))
        my_y == normalized(to_parent_direction(ps, self, my_tangent))
        my_z == Cross(my_x, my_y)
        at_x == normalized(to_parent_direction(ps, of, VNeg(at_normal)))
        at_y == normalized(to_parent_direction(ps, of, at_tangent))
        at_z == Cross(at_x, at_y)
        r1 == MTranspose(MColumns(my_x, my_y, my_z))
        r2 == MColumns(at_x, at_y, at_z)
    IN  get_quaternion(MMul(r2, r1))

\* the two assertions after set_rotation (lines 267-270)
AlignAsserts(ps, self, my_normal, my_tangent, at_normal, at_tangent, of) ==
    /\ vectors_parallel(to_parent_direction(ps, self, my_normal),
                        to_parent_direction(ps, of, VNeg(at_normal)))
    /\ vectors_parallel(to_parent_direction(ps, self, my_tangent),
                        to_parent_direction(ps, of, at_tangent))

\* the final translation applied to of, the other way round
AlignTranslate_MovesOf(ps, self, my, at, of) ==
    LET my_pos == to_parent_frame(ps, self, my)
        at_pos == to_parent_frame(ps, of, at)
    IN  translate(ps, of, VSub(my_pos, at_pos))

\* the final translation (lines 272-276)
AlignTranslate(ps, self, my, at, of) ==
    LET my_pos == to_parent_frame(ps, self, my)
        at_pos == to_parent_frame(ps, of, at)
    IN  translate(ps, self, VSub(at_pos, my_pos))

\* the opening checks without the one on the at pair
AlignPrecondition_MyOnly(my_normal, my_tangent, at_normal, at_tangent) ==
    vectors_orthogonal(my_normal, my_tangent)

\* the checks that open align (lines 212-216)
AlignPrecondition(my_normal, my_tangent, at_normal, at_tangent) ==
    /\ vectors_orthogonal(my_normal, my_tangent)
    /\ vectors_orthogonal(at_normal, at_tangent)

align(ps, self, my, my_normal, my_tangent, at, at_normal, at_tangent, of, relative_to_child) ==
    IF ~AlignPrecondition(my_normal, my_tangent, at_normal, at_tangent)
    THEN [ps |-> ps, err |-> "ValueError"]
    ELSE
      LET l == AlignLocal(ps, self, my, my_normal, my_tangent, at, at_normal,
                          at_tangent, of, relative_to_child)
          rotated == set_rotation(ps, self,
                        AlignRotation(ps, self, l.my_normal, l.my_tangent,
                                      l.at_normal, l.at_tangent, of))
      IN  IF ~AlignAsserts(rotated, self, l.my_normal, l.my_tangent,
                           l.at_normal, l.at_tangent, of)
          THEN [ps |-> rotated, err |-> "AssertionError"]
          ELSE [ps |-> AlignTranslate(rotated, self, l.my, l.at, of),
                err |-> "none"]

(***************************************************************************)
(* Rationals, for masses and inertia tensors.                              *)
(***************************************************************************)
\* n / d in lowest terms, d # 0
Rat(n, d) ==
    LET g == GCD(Abs(n), Abs(d))
    IN  IF d < 0 THEN <<(-n) \div g, (-d) \div g>>
        ELSE <<n \div g, d \div g>>

RatInt(n) == <<n, 1>>
RatAdd(a, b) == Rat(a[1] * b[2] + b[1] * a[2], a[2] * b[2])
RatSub(a, b) == Rat(a[1] * b[2] - b[1] * a[2], a[2] * b[2])
RatMul(a, b) == Rat(a[1] * b[1], a[2] * b[2])
RatDiv(a, b) == Rat(a[1] * b[2], a[2] * b[1])

\* vectors and 3x3 matrices of rationals
RatVec(v) == <<RatInt(v[1]), RatInt(v[2]), RatInt(v[3])>>
RatVAdd(a, b) == <<RatAdd(a[1], b[1]), RatAdd(a[2], b[2]), RatAdd(a[3], b[3])>>
RatVSub(a, b) == <<RatSub(a[1], b[1]), RatSub(a[2], b[2]), RatSub(a[3], b[3])>>
RatVScale(r, v) == <<RatMul(r, v[1]), RatMul(r, v[2]), RatMul(r, v[3])>>
RatDot(a, b) ==
    RatAdd(RatAdd(RatMul(a[1], b[1]), RatMul(a[2], b[2])), RatMul(a[3], b[3]))
RatMat(m) == <<RatVec(m[1]), RatVec(m[2]), RatVec(m[3])>>
RatMAdd(a, b) == <<RatVAdd(a[1], b[1]), RatVAdd(a[2], b[2]), RatVAdd(a[3], b[3])>>
RatMMul(a, b) ==
    [i \in 1..3 |-> [j \in 1..3 |->
        RatDot(a[i], <<b[1][j], b[2][j], b[3][j]>>)]]
RatMZero == RatMat(<<Zero3, Zero3, Zero3>>)

(***************************************************************************)
(* Inertial and the geometries.  get_inertial yields the error raised, if  *)
(* any, and the Inertial returned.                                         *)
(***************************************************************************)
\* no Inertial (None)
NoInertial ==
    [some |-> FALSE, mass |-> RatInt(0), ixx |-> RatInt(0),
     ixy |-> RatInt(0), ixz |-> RatInt(0), iyy |-> RatInt(0),
     iyz |-> RatInt(0), izz |-> RatInt(0)]

\* Inertial.__init__(**kwargs): the keyword arguments go to
\* Element.__init__, which reads attributes, tag_name and body out of them;
\* the fields are then set to the unit tensor and mass 1.0.
Inertial(kwargs) ==
    [some |-> TRUE, mass |-> RatInt(1), ixx |-> RatInt(1),
     ixy |-> RatInt(0), ixz |-> RatInt(0), iyy |-> RatInt(1),
     iyz |-> RatInt(0), izz |-> RatInt(1)]

\* a shape as constructed: Box(x, y, z), Cylinder(radius, length),
\* Sphere(radius); a field a class does not have is 0
Shape(size, radius, length) ==
    [size |-> size, radius |-> radius, length |-> length]

\* the keyword arguments of a get_inertial call that leaves them out
NoKwargs == [tube |-> FALSE, has_r1 |-> FALSE, r1 |-> 0, solid |-> TRUE]

\* Geometry.get_inertial
Geometry_get_inertial(sh, mass, kwargs) ==
    [err |-> "NotImplementedError", inertial |-> NoInertial]

\* Box.get_inertial
Box_get_inertial(sh, mass, kwargs) ==
    LET r == RatDiv(RatInt(mass), RatInt(12))
        x == sh.size[1]
        y == sh.size[2]
        z == sh.size[3]
        ixx == RatMul(r, RatInt(y * y + z * z))
        iyy == RatMul(r, RatInt(x * x + z * z))
        izz == RatMul(r, RatInt(x * x + y * y))
    IN  [err |-> "none",
         inertial |-> Inertial([mass |-> RatInt(mass), ixx |-> ixx,
                                iyy |-> iyy, izz |-> izz])]

\* Cylinder.get_inertial that takes a tube without r1 for a solid cylinder
Cylinder_get_inertial_NoCheck(sh, mass, kwargs) ==
    LET r == IF kwargs.tube /\ kwargs.has_r1
             THEN sh.radius * sh.radius + kwargs.r1 * kwargs.r1
             ELSE sh.radius * sh.radius
        ixx == RatDiv(RatInt((3 * r + sh.length * sh.length) * mass),
                      RatInt(12))
        izz == RatMul(Rat(1, 2), RatInt(mass * r))
    IN  [err |-> "none",
         inertial |-> Inertial([mass |-> RatInt(mass), ixx |-> ixx,
                                iyy |-> ixx, izz |-> izz])]

\* Cylinder.get_inertial
Cylinder_get_inertial(sh, mass, kwargs) ==
    IF kwargs.tube /\ ~kwargs.has_r1
    THEN [err |-> "AttributeError", inertial |-> NoInertial]
    ELSE
      LET r == IF kwargs.tube
               THEN sh.radius * sh.radius + kwargs.r1 * kwargs.r1
               ELSE sh.radius * sh.radius
          ixx == RatDiv(RatInt((3 * r + sh.length * sh.length) * mass),
                        RatInt(12))
          izz == RatMul(Rat(1, 2), RatInt(mass * r))
      IN  [err |-> "none",
           inertial |-> Inertial([mass |-> RatInt(mass), ixx |-> ixx,
                                  iyy |-> ixx, izz |-> izz])]

\* Sphere.get_inertial
Sphere_get_inertial(sh, mass, kwargs) ==
    LET frac == IF kwargs.solid THEN 5 ELSE 3
        ixx == RatDiv(RatInt(2 * mass * sh.radius * sh.radius), RatInt(frac))
    IN  [err |-> "none",
         inertial |-> Inertial([mass |-> RatInt(mass), ixx |-> ixx,
                                iyy |-> ixx, izz |-> ixx])]

\* get_inertial as dispatched on the class of g
get_inertial(sh, g, mass, kwargs) ==
    IF g \in Boxes THEN Box_get_inertial(sh[g], mass, kwargs)
    ELSE IF g \in Cylinders THEN Cylinder_get_inertial(sh[g], mass, kwargs)
    ELSE IF g \in Spheres THEN Sphere_get_inertial(sh[g], mass, kwargs)
    ELSE Geometry_get_inertial(sh[g], mass, kwargs)

\* Geometry.get_center_of_mass
get_center_of_mass(g) == Zero3

\* g has a method get_center_of_mass: a Geometry has, a CompoundGeometry,
\* which is a PosableGroup and no Geometry, has not
has_center_of_mass(g) == g \notin Compounds

\* Posable.to_sibling_frame: a point of n's frame in the frame of sibling
to_sibling_frame(ps, n, vec, sibling) ==
    to_local_frame(ps, sibling, to_parent_frame(ps, n, vec))

(***************************************************************************)
(* Element: the classes of the objects and the filters on the child list.  *)
(* els is the child list of every node.                                    *)
(***************************************************************************)
\* the class of an object
ClassOf(n) ==
    CASE n \in Links -> "Link"
      [] n = "collision" -> "Collision"
      [] n = "visual" -> "Visual"
      [] n \in Geometries -> "Geometry"
      [] n \in Boxes -> "Box"
      [] n \in Cylinders -> "Cylinder"
      [] n \in Spheres -> "Sphere"
      [] n \in Compounds -> "CompoundGeometry"
      [] n \in Groups \ Compounds -> "PosableGroup"
      [] n = "elem" -> "Element"
      [] OTHER -> "Posable"

\* the base class of a class, as the class statements give it
Base(T) ==
    CASE T \in {"Box", "Cylinder", "Sphere"} -> "Geometry"
      [] T \in {"Collision", "Visual"} -> "Structure"
      [] T = "CompoundGeometry" -> "PosableGroup"
      [] T \in {"Geometry", "Structure", "PosableGroup", "Link"} -> "Posable"
      [] T = "Posable" -> "Element"
      [] OTHER -> "object"

RECURSIVE issubclass(_, _)
issubclass(T, U) ==
    IF T = U THEN TRUE
    ELSE IF T = "object" THEN FALSE
    ELSE issubclass(Base(T), U)

isinstance(n, T) == issubclass(ClassOf(n), T)

\* Element.get_elements: the children of n that are instances of T, among
\* the first i
RECURSIVE get_elements(_, _, _, _)
get_elements(els, n, T, i) ==
    IF i = 0 THEN <<>>
    ELSE get_elements(els, n, T, i - 1)
            \o (IF isinstance(els[n][i], T) THEN <<els[n][i]>> ELSE <<>>)

\* Element.get_elements_of_type over the first i children of n: a child
\* that is an instance of T, then, in recursive mode, what lies below it
RECURSIVE get_elements_of_type(_, _, _, _, _)
get_elements_of_type(els, n, T, recursive, i) ==
    IF i = 0 THEN <<>>
    ELSE LET el == els[n][i]
         IN  get_elements_of_type(els, n, T, recursive, i - 1)
                \o (IF isinstance(el, T) THEN <<el>> ELSE <<>>)
                \o (IF recursive
                    THEN get_elements_of_type(els, el, T, TRUE, Len(els[el]))
                    ELSE <<>>)

(***************************************************************************)
(* CompoundGeometry.  geoms is self.geometries, a sequence of entries      *)
(* (geometry, mass, kwargs).                                               *)
(***************************************************************************)
Entry(g, mass, kwargs) == [geometry |-> g, mass |-> mass, kwargs |-> kwargs]

\* CompoundGeometry.add_geometry
add_geometry(geoms, g, mass, kwargs) == Append(geoms, Entry(g, mass, kwargs))

\* geom_center of an entry: its centre of mass in the frame of the compound
geom_center(ps, self, e) ==
    to_sibling_frame(ps, e.geometry, get_center_of_mass(e.geometry), self)

\* total_mass after the first i entries
RECURSIVE total_mass(_, _)
total_mass(geoms, i) ==
    IF i = 0 THEN 0 ELSE total_mass(geoms, i - 1) + geoms[i].mass

\* center_mass after the first i entries, before the division
RECURSIVE MassMoment(_, _, _, _)
MassMoment(ps, self, geoms, i) ==
    IF i = 0 THEN Zero3
    ELSE LET c == geom_center(ps, self, geoms[i])
             m == geoms[i].mass
         IN  VAdd(MassMoment(ps, self, geoms, i - 1),
                  <<m * c[1], m * c[2], m * c[3]>>)

\* center_mass
center_mass(ps, self, geoms) ==
    LET total == total_mass(geoms, Len(geoms))
        moment == RatVec(MassMoment(ps, self, geoms, Len(geoms)))
    IN  IF total > 0 THEN RatVScale(Rat(1, total), moment) ELSE moment

\* the tensor of an Inertial as a matrix (i1)
TensorOf(ia) ==
    << <<ia.ixx, ia.ixy, ia.ixz>>,
       <<ia.ixy, ia.iyy, ia.iyz>>,
       <<ia.ixz, ia.iyz, ia.izz>> >>

\* j1 of one entry, given the Inertial ia of its geometry
EntryTensor(ps, self, e, ia, cm) ==
    LET rot_quat == QMul(conjugated(get_rotation(ps, self)),
                         get_rotation(ps, e.geometry))
        r1 == RatMat(get_matrix(rot_quat))
        it == RatMMul(RatMMul(r1, TensorOf(ia)), MTranspose(r1))
        t1 == RatVSub(cm, RatVec(geom_center(ps, self, e)))
        tt == RatDot(t1, t1)
        shift == [i \in 1..3 |-> [j \in 1..3 |->
                    RatMul(RatInt(e.mass),
                           RatSub(IF i = j THEN tt ELSE RatInt(0),
                                  RatMul(t1[i], t1[j])))]]
    IN  RatMAdd(it, shift)

\* i_final after the first i entries, or the error one of them raised
RECURSIVE TensorSum(_, _, _, _, _, _)
TensorSum(ps, sh, self, geoms, i, cm) ==
    IF i = 0 THEN [err |-> "none", m |-> RatMZero]
    ELSE LET before == TensorSum(ps, sh, self, geoms, i - 1, cm)
             e == geoms[i]
             ia == get_inertial(sh, e.geometry, e.mass, e.kwargs)
         IN  IF before.err # "none" THEN before
             ELSE IF ia.err # "none" THEN [err |-> ia.err, m |-> before.m]
             ELSE [err |-> "none",
                   m |-> RatMAdd(before.m,
                                 EntryTensor(ps, self, e, ia.inertial, cm))]

\* CompoundGeometry.get_inertial
CompoundGeometry_get_inertial(ps, sh, self, geoms) ==
    LET total == total_mass(geoms, Len(geoms))
        sum == TensorSum(ps, sh, self, geoms, Len(geoms),
                         center_mass(ps, self, geoms))
        i_final == sum.m
    IN  IF \E i \in 1..Len(geoms) : ~has_center_of_mass(geoms[i].geometry)
        THEN [err |-> "AttributeError", inertial |-> NoInertial]
        ELSE IF sum.err # "none"
        THEN [err |-> sum.err, inertial |-> NoInertial]
        ELSE [err |-> "none",
              inertial |-> Inertial([mass |-> RatInt(total),
                                     ixx |-> i_final[1][1],
                                     iyy |-> i_final[2][2],
                                     izz |-> i_final[3][3],
                                     ixy |-> i_final[1][2],
                                     ixz |-> i_final[1][3],
                                     iyz |-> i_final[2][3]])]

(***************************************************************************)
(* Link.make_geometry: the Inertial is computed first; a collision and a   *)
(* visual that share the geometry are then added to the link.              *)
(***************************************************************************)
make_geometry_ChildrenFirst(sh, els, geo, inr, l, g, mass, collision, visual, inertia, kwargs) ==
    LET r == IF inertia THEN get_inertial(sh, g, mass, kwargs)
             ELSE [err |-> "none", inertial |-> inr[l]]
        withCol == IF collision THEN Append(els[l], "collision") ELSE els[l]
        withVis == IF visual THEN Append(withCol, "visual") ELSE withCol
        geoCol == IF collision THEN [geo EXCEPT !["collision"] = g] ELSE geo
        geoVis == IF visual THEN [geoCol EXCEPT !["visual"] = g] ELSE geoCol
    IN  [err |-> r.err,
         elements |-> [els EXCEPT ![l] = withVis],
         geometry |-> geoVis,
         inertial |-> IF r.err = "none" THEN [inr EXCEPT ![l] = r.inertial]
                      ELSE inr]

make_geometry(sh, els, geo, inr, l, g, mass, collision, visual, inertia, kwargs) ==
    LET r == IF inertia THEN get_inertial(sh, g, mass, kwargs)
             ELSE [err |-> "none", inertial |-> inr[l]]
        withCol == IF collision THEN Append(els[l], "collision") ELSE els[l]
        withVis == IF visual THEN Append(withCol, "visual") ELSE withCol
        geoCol == IF collision THEN [geo EXCEPT !["collision"] = g] ELSE geo
        geoVis == IF visual THEN [geoCol EXCEPT !["visual"] = g] ELSE geoCol
    IN  IF r.err # "none"
        THEN [err |-> r.err, elements |-> els, geometry |-> geo,
              inertial |-> inr]
        ELSE [err |-> "none",
              elements |-> [els EXCEPT ![l] = withVis],
              geometry |-> geoVis,
              inertial |-> [inr EXCEPT ![l] = r.inertial]]

(***************************************************************************)
(* Calls.  Every action is one call of the program, made on the current    *)
(* pose store; it appends the call (arguments, error, returned value) to   *)
(* hist and the store it started from to trail.  An error ends the run.    *)
(***************************************************************************)
NoCall == [op |-> "", self |-> "", of |-> "", rel |-> FALSE,
           my |-> Zero3, my_normal |-> Zero3, my_tangent |-> Zero3,
           at |-> Zero3, at_normal |-> Zero3, at_tangent |-> Zero3,
           v |-> Zero3, q |-> QIdentity, angle |-> 0,
           mass |-> 0, kwargs |-> NoKwargs, size |-> Zero3, radius |-> 0,
           length |-> 0, collision |-> FALSE, visual |-> FALSE,
           inertia |-> FALSE, inertial |-> NoInertial,
           err |-> "none", out |-> Zero3, nan |-> FALSE, held |-> FALSE,
           ret |-> 0, cls |-> "", recursive |-> FALSE, els |-> <<>>]

Last == hist[Len(hist)]
Pre == trail[Len(trail)]
Called(op) == IF Len(hist) = 0 THEN FALSE ELSE Last.op = op
Running ==
    /\ Len(hist) < MaxSteps
    /\ IF Len(hist) = 0 THEN TRUE ELSE Last.err = "none"

Record(call, ps) ==
    /\ pose' = ps
    /\ hist' = Append(hist, call)
    /\ trail' = Append(trail, pose)
    /\ UNCHANGED <<elements, geometry, shape, geometries, inertial>>

\* n.set_position(position)
SetPosition(n, position) ==
    /\ Running
    /\ Record([NoCall EXCEPT !.op = "set_position", !.self = n,
                             !.v = position],
              set_position(pose, n, position))

\* n.set_rotation(rotation)
SetRotation(n, rotation) ==
    /\ Running
    /\ Record([NoCall EXCEPT !.op = "set_rotation", !.self = n,
                             !.q = rotation],
              set_rotation(pose, n, rotation))

\* n.translate(translation)
Translate(n, translation) ==
    /\ Running
    /\ Record([NoCall EXCEPT !.op = "translate", !.self = n,
                             !.v = translation],
              translate(pose, n, translation))

\* n.rotate(rotation)
Rotate(n, rotation) ==
    /\ Running
    /\ Record([NoCall EXCEPT !.op = "rotate", !.self = n, !.q = rotation],
              rotate(pose, n, rotation))

\* n.rotate_around(axis, angle, relative_to_child)
RotateAround(n, axis, angle, relative_to_child) ==
    /\ Running
    /\ Record([NoCall EXCEPT !.op = "rotate_around", !.self = n, !.v = axis,
                             !.angle = angle, !.rel = relative_to_child],
              rotate_around(pose, n, axis, angle, relative_to_child))

\* n.to_parent_direction(vec)
ToParentDirection(n, vec) ==
    /\ Running
    /\ Record([NoCall EXCEPT !.op = "to_parent_direction", !.self = n,
                             !.v = vec,
                             !.out = to_parent_direction(pose, n, vec)],
              pose)

\* n.to_local_direction(vec)
ToLocalDirection(n, vec) ==
    /\ Running
    /\ Record([NoCall EXCEPT !.op = "to_local_direction", !.self = n,
                             !.v = vec,
                             !.out = to_local_direction(pose, n, vec)],
              pose)

\* n.to_parent_frame(vec)
ToParentFrame(n, vec) ==
    /\ Running
    /\ Record([NoCall EXCEPT !.op = "to_parent_frame", !.self = n, !.v = vec,
                             !.out = to_parent_frame(pose, n, vec)],
              pose)

\* n.to_local_frame(vec)
ToLocalFrame(n, vec) ==
    /\ Running
    /\ Record([NoCall EXCEPT !.op = "to_local_frame", !.self = n, !.v = vec,
                             !.out = to_local_frame(pose, n, vec)],
              pose)

\* self.align(my, my_normal, my_tangent, at, at_normal, at_tangent, of,
\*            relative_to_child)
Align(self, my, my_normal, my_tangent, at, at_normal, at_tangent, of, relative_to_child) ==
    /\ Running
    /\ LET r == align(pose, self, my, my_normal, my_tangent, at, at_normal,
                      at_tangent, of, relative_to_child)
       IN  Record([NoCall EXCEPT !.op = "align", !.self = self, !.of = of,
                                 !.rel = relative_to_child, !.my = my,
                                 !.my_normal = my_normal,
                                 !.my_tangent = my_tangent, !.at = at,
                                 !.at_normal = at_normal,
                                 !.at_tangent = at_tangent, !.err = r.err],
                  r.ps)

\* vec.normalize()
Normalize(vec) ==
    /\ Running
    /\ LET r == normalize(vec)
       IN  Record([NoCall EXCEPT !.op = "normalize", !.v = vec,
                                 !.err = r.err, !.out = r.out],
                  pose)

\* vec.normalized()
Normalized(vec) ==
    /\ Running
    /\ Record([NoCall EXCEPT !.op = "normalized", !.v = vec,
                             !.out = normalized(vec),
                             !.nan = normalized_nan(vec)],
              pose)

\* vectors_orthogonal(a, b)
VectorsOrthogonal(a, b) ==
    /\ Running
    /\ Record([NoCall EXCEPT !.op = "vectors_orthogonal", !.my_normal = a,
                             !.my_tangent = b,
                             !.held = vectors_orthogonal(a, b)],
              pose)

\* vector_parallellism(a, b)
VectorParallellism(a, b) ==
    /\ Running
    /\ Record([NoCall EXCEPT !.op = "vector_parallellism", !.my_normal = a,
                             !.my_tangent = b,
                             !.ret = vector_parallellism(a, b)],
              pose)

\* vectors_parallel(a, b)
VectorsParallel(a, b) ==
    /\ Running
    /\ Record([NoCall EXCEPT !.op = "vectors_parallel", !.my_normal = a,
                             !.my_tangent = b,
                             !.held = vectors_parallel(a, b)],
              pose)

\* the call is appended to hist, the pose store it started from to trail
Log(call) ==
    /\ hist' = Append(hist, call)
    /\ trail' = Append(trail, pose)

\* g is the geometry of a structure of a link, or a part of the compound
InUse(g) ==
    \/ \E l \in Links : \E i \in 1..Len(elements[l]) :
          /\ elements[l][i] \in Structures
          /\ geometry[elements[l][i]] = g
    \/ \E c \in Compounds : \E i \in 1..Len(geometries[c]) :
          geometries[c][i].geometry = g

\* s is a child of some node
HasParent(s) ==
    \E n \in Nodes : \E i \in 1..Len(elements[n]) : elements[n][i] = s

\* g = Box(x, y, z)
NewBox(g, x, y, z) ==
    /\ Running
    /\ ~InUse(g)
    /\ shape' = [shape EXCEPT ![g] = Shape(<<x, y, z>>, 0, 0)]
    /\ pose' = [pose EXCEPT ![g] = NewPose]
    /\ Log([NoCall EXCEPT !.op = "Box", !.self = g, !.size = <<x, y, z>>])
    /\ UNCHANGED <<elements, geometry, geometries, inertial>>

\* g = Cylinder(radius, length)
NewCylinder(g, radius, length) ==
    /\ Running
    /\ ~InUse(g)
    /\ shape' = [shape EXCEPT ![g] = Shape(Zero3, radius, length)]
    /\ pose' = [pose EXCEPT ![g] = NewPose]
    /\ Log([NoCall EXCEPT !.op = "Cylinder", !.self = g,
                          !.radius = radius, !.length = length])
    /\ UNCHANGED <<elements, geometry, geometries, inertial>>

\* g = Sphere(radius)
NewSphere(g, radius) ==
    /\ Running
    /\ ~InUse(g)
    /\ shape' = [shape EXCEPT ![g] = Shape(Zero3, radius, 0)]
    /\ pose' = [pose EXCEPT ![g] = NewPose]
    /\ Log([NoCall EXCEPT !.op = "Sphere", !.self = g, !.radius = radius])
    /\ UNCHANGED <<elements, geometry, geometries, inertial>>

\* g.get_inertial(mass, **kwargs)
GetInertial(g, mass, kwargs) ==
    /\ Running
    /\ LET r == get_inertial(shape, g, mass, kwargs)
       IN  Log([NoCall EXCEPT !.op = "get_inertial", !.self = g,
                              !.mass = mass, !.kwargs = kwargs,
                              !.err = r.err, !.inertial = r.inertial])
    /\ UNCHANGED <<pose, elements, geometry, shape, geometries, inertial>>

\* c.add_geometry(g, mass, **kwargs)
AddGeometry(c, g, mass, kwargs) ==
    /\ Running
    /\ \A d \in Compounds : \A i \in 1..Len(geometries[d]) :
          geometries[d][i].geometry # g
    /\ geometries' = [geometries EXCEPT
                         ![c] = add_geometry(geometries[c], g, mass, kwargs)]
    /\ Log([NoCall EXCEPT !.op = "add_geometry", !.self = c,
                          !.of = g, !.mass = mass, !.kwargs = kwargs])
    /\ UNCHANGED <<pose, elements, geometry, shape, inertial>>

\* c.get_inertial()
CompoundGetInertial(c) ==
    /\ Running
    /\ LET r == CompoundGeometry_get_inertial(pose, shape, c, geometries[c])
       IN  Log([NoCall EXCEPT !.op = "get_inertial", !.self = c,
                              !.err = r.err, !.inertial = r.inertial])
    /\ UNCHANGED <<pose, elements, geometry, shape, geometries, inertial>>

\* p.add_element(c)
AddElement(p, c) ==
    /\ Running
    /\ elements' = [elements EXCEPT ![p] = Append(@, c)]
    /\ Log([NoCall EXCEPT !.op = "add_element", !.self = p, !.of = c])
    /\ UNCHANGED <<pose, geometry, shape, geometries, inertial>>

\* p.add_elements(cs)
AddElements(p, cs) ==
    /\ Running
    /\ elements' = [elements EXCEPT ![p] = @ \o cs]
    /\ Log([NoCall EXCEPT !.op = "add_elements", !.self = p, !.els = cs])
    /\ UNCHANGED <<pose, geometry, shape, geometries, inertial>>

\* p.get_elements(T)
GetElements(p, T) ==
    /\ Running
    /\ Log([NoCall EXCEPT !.op = "get_elements", !.self = p, !.cls = T,
                          !.els = get_elements(elements, p, T,
                                               Len(elements[p]))])
    /\ UNCHANGED <<pose, elements, geometry, shape, geometries, inertial>>

\* p.get_elements_of_type(T, recursive)
GetElementsOfType(p, T, recursive) ==
    /\ Running
    /\ Log([NoCall EXCEPT !.op = "get_elements_of_type", !.self = p,
                          !.cls = T, !.recursive = recursive,
                          !.els = get_elements_of_type(elements, p, T,
                                      recursive, Len(elements[p]))])
    /\ UNCHANGED <<pose, elements, geometry, shape, geometries, inertial>>

\* l.make_geometry(g, mass, collision, visual, inertia, **kwargs); the
\* Collision and the Visual it creates are new objects
MakeGeometry(l, g, mass, collision, visual, inertia, kwargs) ==
    /\ Running
    /\ collision => ~HasParent("collision")
    /\ visual => ~HasParent("visual")
    /\ LET r == make_geometry(shape, elements, geometry, inertial, l, g,
                              mass, collision, visual, inertia, kwargs)
       IN  /\ elements' = r.elements
           /\ geometry' = r.geometry
           /\ inertial' = r.inertial
           /\ Log([NoCall EXCEPT !.op = "make_geometry", !.self = l,
                                 !.of = g, !.mass = mass,
                                 !.kwargs = kwargs,
                                 !.collision = collision,
                                 !.visual = visual, !.inertia = inertia,
                                 !.err = r.err])
    /\ UNCHANGED <<pose, shape, geometries>>

(***************************************************************************)
(* The scene: group holds two links, a joint, a plain element and an inner *)
(* group with one link; sgroup holds a collision and a visual.             *)
(***************************************************************************)
SceneElements ==
    [n \in Nodes |->
        CASE n = "group" -> <<"child1", "child2", "joint", "elem", "inner">>
          [] n = "inner" -> <<"grandchild">>
          [] n = "sgroup" -> <<"collision", "visual">>
          [] OTHER -> <<>>]

\* rotations used as inputs: quarter turn about z, third of a turn about
\* (1, 1, 1), quarter turn about x, half turn about y
Rz90 == <<1, 0, 0, 1>>
R111 == <<1, 1, 1, 1>>
Rx90 == <<1, 1, 0, 0>>
Ry180 == <<0, 0, 1, 0>>

P(position, rotation) == [position |-> position, rotation |-> rotation]

\* the poses of the children of group, fixed in every run
ScenePose ==
    [n \in Posables |->
        CASE n = "child1" -> P(<<1, 0, 0>>, QIdentity)
          [] n = "child2" -> P(<<0, 2, 1>>, Rx90)
          [] n = "joint" -> P(<<0, 0, 1>>, Rz90)
          [] n = "inner" -> P(<<1, 1, 0>>, Rz90)
          [] n = "grandchild" -> P(<<2, 1, 0>>, Ry180)
          [] OTHER -> NewPose]

\* the shapes of the scene
SceneShape ==
    [g \in Shapes \cup Geometries |->
        IF g \in Boxes THEN Shape(<<1, 2, 3>>, 0, 0)
        ELSE IF g \in Cylinders THEN Shape(Zero3, 1, 2)
        ELSE IF g \in Spheres THEN Shape(Zero3, 1, 0)
        ELSE Shape(Zero3, 0, 0)]

InitCommon ==
    /\ elements = SceneElements
    /\ shape = SceneShape
    /\ geometries = [c \in Compounds |-> <<>>]
    /\ inertial = [l \in Links |-> NoInertial]
    /\ hist = <<>>
    /\ trail = <<>>

(***************************************************************************)
(* Spec: align.  self is a link or the group, of another link (or, for     *)
(* the group, one of its own children); the poses they have before the     *)
(* call are those earlier set_position / set_rotation calls left.          *)
(***************************************************************************)
LinkPoses == {NewPose, P(<<1, 2, 3>>, Rz90), P(<<1, 2, 3>>, R111)}
Link2Poses == {NewPose, P(<<2, 0, -1>>, Rx90)}
GroupPoses == {NewPose, P(<<0, 1, 0>>, Ry180)}

\* (normal, tangent) pairs; the last of each set is not orthogonal
MyDirs == {<< <<1, 0, 0>>, <<0, MaxLen, 0>> >>,
           << <<0, 0, -1>>, <<1, 0, 0>> >>,
           << <<1, 0, 0>>, <<MaxLen, 0, 0>> >>}
AtDirs == {<< <<0, 0, 1>>, <<1, 0, 0>> >>,
           << <<0, -MaxLen, 0>>, <<0, 0, 1>> >>,
           << <<0, 1, 0>>, <<0, -1, 0>> >>}
MyPoints == {<<0, -1, 2>>}
AtPoints == {<<-1, 1, 2>>}
AlignPairs == {<<"link", "link2">>, <<"group", "link2">>,
               <<"group", "child1">>}

Init ==
    /\ InitCommon
    /\ geometry = [s \in Structures |-> "geometry"]
    /\ \E l \in LinkPoses, l2 \in Link2Poses, g \in GroupPoses :
          pose = [ScenePose EXCEPT !["link"] = l, !["link2"] = l2,
                                   !["group"] = g]

Next ==
    \E pr \in AlignPairs, my \in MyPoints, md \in MyDirs, at \in AtPoints,
       ad \in AtDirs, rel \in BOOLEAN :
        Align(pr[1], my, md[1], md[2], at, ad[1], ad[2], pr[2], rel)

Spec == Init /\ [][Next]_vars

(***************************************************************************)
(* SpecFrame: frame conversions and rotations of one posable, a link or    *)
(* the group.                                                              *)
(***************************************************************************)
FrameNodes == {"link", "group"}
FrameAxes == {<<0, 0, 1>>, <<MaxLen, 0, 0>>}
Angles == {1, 2, 3}
TestVecs == {<<1, 2, 3>>, <<0, -1, 0>>}
Basis == {<<1, 0, 0>>, <<0, 1, 0>>, <<0, 0, 1>>}
FrameTranslations == {<<1, 0, -2>>, <<0, 3, 1>>}
FrameTurns == {R111, Rx90}

InitFrame ==
    /\ InitCommon
    /\ geometry = [s \in Structures |-> "geometry"]
    /\ \E l \in LinkPoses :
          pose = [ScenePose EXCEPT !["link"] = l,
                                   !["group"] = P(<<0, 1, 0>>, Ry180)]

NextFrame ==
    \/ \E n \in FrameNodes, axis \in FrameAxes, k \in Angles,
          rel \in BOOLEAN : RotateAround(n, axis, k, rel)
    \/ \E n \in FrameNodes, v \in TestVecs : ToParentDirection(n, v)
    \/ \E n \in FrameNodes, v \in TestVecs : ToLocalDirection(n, v)
    \/ \E n \in FrameNodes, v \in TestVecs : ToParentFrame(n, v)
    \/ \E n \in FrameNodes, v \in TestVecs : ToLocalFrame(n, v)
    \/ \E n \in FrameNodes, v \in FrameTranslations : Translate(n, v)
    \/ \E n \in FrameNodes, q \in FrameTurns : Rotate(n, q)

SpecFrame == InitFrame /\ [][NextFrame]_vars

(***************************************************************************)
(* SpecGroup: moves of the group, whose children own their poses.          *)
(***************************************************************************)
MovePositions == {Zero3, <<1, -1, 2>>}
MoveRotations == {QIdentity, Rz90, R111}
MoveTranslations == {<<0, 3, -1>>}
MoveTurns == {Rx90, Ry180}

GroupMoves(g) ==
    \/ \E p \in MovePositions : SetPosition(g, p)
    \/ \E r \in MoveRotations : SetRotation(g, r)
    \/ \E v \in MoveTranslations : Translate(g, v)
    \/ \E q \in MoveTurns : Rotate(g, q)

InitGroup ==
    /\ InitCommon
    /\ geometry = [s \in Structures |-> "geometry"]
    /\ \E g \in GroupPoses \cup {P(<<1, 0, 2>>, Rz90)},
          c1 \in {P(<<1, 0, 0>>, QIdentity), P(<<3, 1, 0>>, R111)},
          c2 \in {P(<<0, 2, 1>>, Rx90), P(<<0, 0, -2>>, QIdentity)} :
          pose = [ScenePose EXCEPT !["group"] = g, !["child1"] = c1,
                                   !["child2"] = c2]

NextGroup == GroupMoves("group")

SpecGroup == InitGroup /\ [][NextGroup]_vars

(***************************************************************************)
(* SpecShared: moves of sgroup, whose children are a collision and a       *)
(* visual; the two own one geometry each or, as Link.make_geometry makes   *)
(* them, share one.                                                        *)
(***************************************************************************)
InitShared ==
    /\ InitCommon
    /\ \E vg \in Geometries :
          geometry = [s \in Structures |->
                         IF s = "visual" THEN vg ELSE "geometry"]
    /\ \E sg \in GroupPoses \cup {P(<<1, 0, 2>>, Rz90)},
          g1 \in {P(<<1, 0, 0>>, QIdentity), P(<<0, 2, 1>>, Rx90)},
          g2 \in {NewPose, P(<<0, 0, 3>>, Rz90)} :
          pose = [ScenePose EXCEPT !["sgroup"] = sg, !["geometry"] = g1,
                                   !["geometry2"] = g2]

NextShared == GroupMoves("sgroup")

SpecShared == InitShared /\ [][NextShared]_vars

(***************************************************************************)
(* SpecInertia: shapes, their Inertial, the compound and                   *)
(* Link.make_geometry.  The compound is being built out of sub-boxes that  *)
(* together make up Box(4, 8, 12) of mass 24, and lacks its last part.     *)
(***************************************************************************)
\* quarter turn about y
Ry90 == <<1, 0, 1, 0>>

\* keyword arguments of get_inertial
Hollow == [NoKwargs EXCEPT !.solid = FALSE]
Tube(r1) == [NoKwargs EXCEPT !.tube = TRUE, !.has_r1 = TRUE, !.r1 = r1]
TubeNoR1 == [NoKwargs EXCEPT !.tube = TRUE]
R1Only(r1) == [NoKwargs EXCEPT !.has_r1 = TRUE, !.r1 = r1]

\* the box the compounds make up
SimpleBox == [size |-> <<4, 8, 12>>, mass |-> 24]
SimpleSize == SimpleBox.size
SimpleMass == SimpleBox.mass

Part(size, position, rotation, mass) ==
    [size |-> size, pose |-> P(position, rotation), mass |-> mass]

\* the objects the parts are
SubNames == <<"sub1", "sub2", "sub3">>

\* two full-size halves at one place; two boxes stacked along z; two boxes
\* side by side over a box turned about y
Scenarios ==
    << << Part(SimpleSize, Zero3, QIdentity, 12),
          Part(SimpleSize, Zero3, QIdentity, 12) >>,
       << Part(<<4, 8, 4>>, <<0, 0, 4>>, QIdentity, 8),
          Part(<<4, 8, 8>>, <<0, 0, -2>>, QIdentity, 16) >>,
       << Part(<<4, 2, 4>>, <<0, -3, 4>>, Ry90, 2),
          Part(<<4, 6, 4>>, <<0, 1, 4>>, Ry90, 6),
          Part(<<8, 8, 4>>, <<0, 0, -2>>, Ry90, 16) >> >>

\* the shapes and poses of the objects when the parts are those of sc
ScenarioShape(sc) ==
    [g \in Shapes \cup Geometries |->
        IF \E i \in 1..Len(sc) : SubNames[i] = g
        THEN Shape(sc[CHOOSE i \in 1..Len(sc) : SubNames[i] = g].size, 0, 0)
        ELSE SceneShape[g]]

ScenarioPose(sc, ps) ==
    [n \in Posables |->
        IF \E i \in 1..Len(sc) : SubNames[i] = n
        THEN sc[CHOOSE i \in 1..Len(sc) : SubNames[i] = n].pose
        ELSE ps[n]]

\* compound.geometries after the first k parts of sc were added
ScenarioParts(sc, k) ==
    [i \in 1..k |-> Entry(SubNames[i], sc[i].mass, NoKwargs)]

BoxPoses == {NewPose, P(<<1, 2, 3>>, R111)}
BoxSizes == {<<2, 3, 4>>, <<0, 2, 3>>, <<2, -1, 3>>}
CylinderSizes == {<<2, 4>>, <<0, 4>>, <<2, -1>>}
SphereRadii == {3, 0}

\* (geometry, mass, kwargs) of the get_inertial calls
InertiaCalls ==
    ({"box"} \X {SimpleMass, 0, -3} \X {NoKwargs})
        \cup ({"cylinder"} \X {SimpleMass}
                 \X {NoKwargs, Tube(1), TubeNoR1, R1Only(1)})
        \cup ({"cylinder", "sphere"} \X {0} \X {NoKwargs})
        \cup ({"sphere"} \X {SimpleMass} \X {NoKwargs, Hollow})
        \cup ({"geometry"} \X {SimpleMass, 0} \X {NoKwargs, Tube(1)})

\* (geometry, mass) of the add_geometry calls
AddCalls == {<<"sub2", 12>>, <<"sub2", 16>>, <<"sub3", 16>>,
             <<"geometry", SimpleMass>>}

\* (collision, visual, inertia) of the make_geometry calls
MakeFlags == {<<TRUE, TRUE, TRUE>>, <<TRUE, FALSE, TRUE>>,
              <<FALSE, TRUE, FALSE>>, <<FALSE, FALSE, TRUE>>}
MakeGeometries == {"cylinder", "geometry"}
MakeKwargs == {NoKwargs, TubeNoR1}

InitInertia ==
    /\ elements = [SceneElements EXCEPT !["sgroup"] = <<>>]
    /\ geometry = [s \in Structures |-> "geometry"]
    /\ inertial = [l \in Links |-> NoInertial]
    /\ hist = <<>>
    /\ trail = <<>>
    /\ \E k \in DOMAIN Scenarios, b \in BoxPoses :
          /\ shape = ScenarioShape(Scenarios[k])
          /\ pose = ScenarioPose(Scenarios[k], [ScenePose EXCEPT !["box"] = b])
          /\ geometries =
                [c \in Compounds |->
                    IF c = "compound"
                    THEN ScenarioParts(Scenarios[k], Len(Scenarios[k]) - 1)
                    ELSE <<>>]

NextInertia ==
    \/ \E s \in BoxSizes : NewBox("box", s[1], s[2], s[3])
    \/ \E s \in CylinderSizes : NewCylinder("cylinder", s[1], s[2])
    \/ \E r \in SphereRadii : NewSphere("sphere", r)
    \/ \E c \in InertiaCalls : GetInertial(c[1], c[2], c[3])
    \/ \E c \in AddCalls : AddGeometry("compound", c[1], c[2], NoKwargs)
    \/ CompoundGetInertial("compound")
    \/ \E g \in MakeGeometries, f \in MakeFlags, kw \in MakeKwargs :
          MakeGeometry("link", g, SimpleMass, f[1], f[2], f[3], kw)

SpecInertia == InitInertia /\ [][NextInertia]_vars

(***************************************************************************)
(* SpecVector: normalization and the epsilon tests on vectors that may be  *)
(* of length zero, and align with such a normal or tangent.                *)
(***************************************************************************)
Vectors == {Zero3, <<MaxLen, 0, 0>>, <<0, -1, 0>>, <<1, 2, 2>>}

\* (normal, tangent) pairs, some with a vector of length zero
ZeroDirs == {<< Zero3, <<0, 1, 0>> >>, << <<0, 0, 1>>, Zero3 >>,
             << <<1, 0, 0>>, <<0, MaxLen, 0>> >>}

InitVector ==
    /\ InitCommon
    /\ geometry = [s \in Structures |-> "geometry"]
    /\ \E l \in LinkPoses :
          pose = [ScenePose EXCEPT !["link"] = l]

NextVector ==
    \/ \E v \in Vectors : Normalize(v)
    \/ \E v \in Vectors : Normalized(v)
    \/ \E a \in Vectors, b \in Vectors : VectorsOrthogonal(a, b)
    \/ \E a \in Vectors, b \in Vectors : VectorsParallel(a, b)
    \/ \E my \in MyPoints, md \in ZeroDirs, at \in AtPoints, ad \in ZeroDirs,
          rel \in BOOLEAN :
          Align("link", my, md[1], md[2], at, ad[1], ad[2], "link2", rel)

SpecVector == InitVector /\ [][NextVector]_vars

(***************************************************************************)
(* SpecParallel: the parallelism test on pairs of non-zero vectors, some   *)
(* on one line, some at a small angle on either side of the threshold:     *)
(* the cosine of the angle between (224, 1, 0) and the x axis is           *)
(* 1 - 0.996e-5, that between (223, 1, 0) and the x axis 1 - 1.005e-5.     *)
(***************************************************************************)
ParallelPairs ==
    {<< <<1, 0, 0>>, <<MaxLen, 0, 0>> >>,
     << <<1, 0, 0>>, <<-MaxLen, 0, 0>> >>,
     << <<1, 0, 0>>, <<0, 1, 0>> >>,
     << <<1, 2, 2>>, <<2, 4, 4>> >>,
     << <<1, 2, 2>>, <<-1, -2, -2>> >>,
     << <<1, 2, 2>>, <<2, 2, 1>> >>,
     << <<224, 1, 0>>, <<1, 0, 0>> >>,
     << <<223, 1, 0>>, <<1, 0, 0>> >>,
     << <<0, MaxLen, 0>>, <<0, -224, 1>> >>,
     << <<0, 1, 0>>, <<0, -223, 1>> >>}

InitParallel ==
    /\ InitCommon
    /\ geometry = [s \in Structures |-> "geometry"]
    /\ pose = ScenePose

\* the pairs at an angle that is neither zero nor a quarter or half turn,
\* and the pairs whose first vector lies along x or near it
SlantedPairs ==
    {pr \in ParallelPairs :
        Cross(pr[1], pr[2]) # Zero3 /\ Dot(pr[1], pr[2]) # 0}
AlongXPairs == {pr \in ParallelPairs : pr[1][1] # 0 /\ pr[1][3] = 0}

NextParallel ==
    \/ \E pr \in ParallelPairs : VectorParallellism(pr[1], pr[2])
    \/ \E pr \in SlantedPairs : VectorParallellism(pr[2], pr[1])
    \/ \E pr \in AlongXPairs : VectorsParallel(pr[1], pr[2])

SpecParallel == InitParallel /\ [][NextParallel]_vars

(***************************************************************************)
(* SpecStructure: moves of a collision and of the geometry it owns.        *)
(***************************************************************************)
StructureNodes == {"collision", "geometry"}

InitStructure ==
    /\ InitCommon
    /\ geometry = [s \in Structures |->
                      IF s = "collision" THEN "geometry" ELSE "geometry2"]
    /\ \E g \in LinkPoses : pose = [ScenePose EXCEPT !["geometry"] = g]

NextStructure ==
    \/ \E n \in StructureNodes, p \in MovePositions : SetPosition(n, p)
    \/ \E n \in StructureNodes, r \in MoveRotations : SetRotation(n, r)
    \/ \E n \in StructureNodes, v \in MoveTranslations : Translate(n, v)
    \/ \E n \in StructureNodes, q \in MoveTurns : Rotate(n, q)
    \/ \E n \in StructureNodes, axis \in FrameAxes, k \in Angles,
          rel \in BOOLEAN : RotateAround(n, axis, k, rel)

SpecStructure == InitStructure /\ [][NextStructure]_vars

(***************************************************************************)
(* SpecCompound: the compound being built, asked for its Inertial and      *)
(* moved; a second compound, nested, can be made a part of it.             *)
(***************************************************************************)
\* (compound, geometry, mass) of the add_geometry calls
CompoundAddCalls ==
    {<<"compound", "sub2", 12>>, <<"compound", "sub3", 16>>,
     <<"compound", "nested", 12>>, <<"compound", "nested", 16>>,
     <<"nested", "sub3", 16>>}

\* the parts of sc shared out: k of them added to the compound, the rest
\* but for the last n left out, the last n added to nested
Shared(sc, k, n) ==
    [c \in Compounds |->
        IF c = "compound" THEN ScenarioParts(sc, k)
        ELSE [i \in 1..n |->
                 Entry(SubNames[Len(sc) - n + i], sc[Len(sc) - n + i].mass,
                       NoKwargs)]]

InitCompound ==
    /\ elements = [SceneElements EXCEPT !["sgroup"] = <<>>]
    /\ geometry = [s \in Structures |-> "geometry"]
    /\ inertial = [l \in Links |-> NoInertial]
    /\ hist = <<>>
    /\ trail = <<>>
    /\ \E k \in DOMAIN Scenarios :
          LET sc == Scenarios[k]
          IN  /\ shape = ScenarioShape(sc)
              /\ pose = ScenarioPose(sc, ScenePose)
              /\ geometries \in {Shared(sc, 0, 0), Shared(sc, Len(sc) - 1, 0),
                                 Shared(sc, Len(sc), 0),
                                 Shared(sc, Len(sc) - 1, 1)}

NextCompound ==
    \/ \E c \in CompoundAddCalls : AddGeometry(c[1], c[2], c[3], NoKwargs)
    \/ \E c \in Compounds : CompoundGetInertial(c)
    \/ GroupMoves("compound")

SpecCompound == InitCompound /\ [][NextCompound]_vars

(***************************************************************************)
(* SpecTree: elements are added to nodes, by the caller and by             *)
(* Link.make_geometry, and the child lists are filtered by class.          *)
(***************************************************************************)
\* the scene with the group of structures put into the inner group
TreeElements ==
    [SceneElements EXCEPT !["inner"] = <<"grandchild", "sgroup">>]

\* (parent, child) of the add_element calls
TreeAdds ==
    {<<"link", "collision">>, <<"link", "elem">>, <<"link2", "collision">>,
     <<"group", "collision">>, <<"group", "sgroup">>, <<"inner", "elem">>}

\* (parent, children) of the add_elements calls
TreeAddLists ==
    {<<"link", <<"collision", "visual">> >>, <<"link", <<"elem", "elem">> >>,
     <<"group", <<"box", "visual">> >>}

\* the nodes and the classes of the filter calls
TreeRoots == {"link", "group"}
TreeClasses == {"Element", "Posable", "PosableGroup", "Structure", "Collision"}

InitTree ==
    /\ elements \in {[n \in Nodes |-> <<>>], SceneElements, TreeElements}
    /\ geometry = [s \in Structures |->
                      IF s = "collision" THEN "geometry" ELSE "geometry2"]
    /\ pose = ScenePose
    /\ shape = SceneShape
    /\ geometries = [c \in Compounds |-> <<>>]
    /\ inertial = [l \in Links |-> NoInertial]
    /\ hist = <<>>
    /\ trail = <<>>

NextTree ==
    \/ \E a \in TreeAdds : AddElement(a[1], a[2])
    \/ \E a \in TreeAddLists : AddElements(a[1], a[2])
    \/ \E p \in TreeRoots, T \in TreeClasses : GetElements(p, T)
    \/ \E p \in TreeRoots, T \in TreeClasses, r \in BOOLEAN :
          GetElementsOfType(p, T, r)
    \/ \E l \in Links, c \in BOOLEAN, v \in BOOLEAN :
          MakeGeometry(l, "box", 1, c, v, FALSE, NoKwargs)

SpecTree == InitTree /\ [][NextTree]_vars

(***************************************************************************)
(* SpecRigid: every call that moves the group, align and rotate_around     *)
(* included, one after the other.                                          *)
(***************************************************************************)
\* (normal, tangent) pairs and the posables the group is aligned with
RigidMyDirs == {<< <<1, 0, 0>>, <<0, MaxLen, 0>> >>,
                << <<0, 0, -1>>, <<1, 0, 0>> >>}
RigidAtDirs == {<< <<0, -MaxLen, 0>>, <<0, 0, 1>> >>}
RigidTargets == {"link2", "child1"}

InitRigid ==
    /\ InitCommon
    /\ geometry = [s \in Structures |-> "geometry"]
    /\ \E g \in GroupPoses \cup {P(<<1, 0, 2>>, Rz90)},
          c1 \in {P(<<1, 0, 0>>, QIdentity), P(<<3, 1, 0>>, R111)} :
          pose = [ScenePose EXCEPT !["group"] = g, !["child1"] = c1]

NextRigid ==
    \/ GroupMoves("group")
    \/ \E axis \in FrameAxes, rel \in BOOLEAN :
          RotateAround("group", axis, 1, rel)
    \/ \E md \in RigidMyDirs, ad \in RigidAtDirs, of \in RigidTargets,
          my \in MyPoints, at \in AtPoints, rel \in BOOLEAN :
          Align("group", my, md[1], md[2], at, ad[1], ad[2], of, rel)

SpecRigid == InitRigid /\ [][NextRigid]_vars

(***************************************************************************)
(* Claims about align, checked under Spec.                                 *)
(***************************************************************************)
\* the six vectors of the last align call, in the local frames
LastLocal ==
    AlignLocal(Pre, Last.self, Last.my, Last.my_normal, Last.my_tangent,
               Last.at, Last.at_normal, Last.at_tangent, Last.of, Last.rel)

\* both normal/tangent pairs of the last call are orthogonal
LastOrthogonal ==
    /\ vectors_orthogonal(Last.my_normal, Last.my_tangent)
    /\ vectors_orthogonal(Last.at_normal, Last.at_tangent)

\* of is a direct child of self
ChildOf(of, self) == \E i \in 1..Len(elements[self]) : elements[self][i] = of

\* C1: every align call with orthogonal normal/tangent pairs, on a self
\* and an of that is not a child of self, completes without an error, and
\* leaves self's normal antiparallel to of's normal,
\* self's tangent parallel to of's tangent, and the point my of self on the
\* point at of of (all seen in the parent frame).
C1_AlignPostcondition ==
    (Called("align") /\ LastOrthogonal /\ ~ChildOf(Last.of, Last.self)) =>
        /\ Last.err = "none"
        /\ vector_parallellism(
               to_parent_direction(pose, Last.self, LastLocal.my_normal),
               to_parent_direction(pose, Last.of, LastLocal.at_normal))
             = OPPOSITE
        /\ vectors_parallel(
               to_parent_direction(pose, Last.self, LastLocal.my_tangent),
               to_parent_direction(pose, Last.of, LastLocal.at_tangent))
        /\ to_parent_frame(pose, Last.self, LastLocal.my)
             = to_parent_frame(pose, Last.of, LastLocal.at)

\* C2: an align call whose normal/tangent pairs are not both orthogonal
\* raises ValueError and leaves every position and rotation as it was.
C2_NonOrthogonalRejected ==
    (Called("align") /\ ~LastOrthogonal) =>
        (Last.err = "ValueError" /\ pose = Pre)

C2_Witness ==
    /\ Called("align")
    /\ ~LastOrthogonal
    /\ Last.self = "group"
    /\ Len(hist) = 2

\* C3: a successful align on self, with of another object that is not a
\* child of self, leaves the pose of of as it was and changes no child list.
C3_AlignMovesSelfOnly ==
    (/\ Called("align")
     /\ Last.err = "none"
     /\ Last.of # Last.self
     /\ ~ChildOf(Last.of, Last.self)) =>
        (pose[Last.of] = Pre[Last.of] /\ elements = SceneElements)

C3_Witness ==
    /\ Called("align")
    /\ Last.err = "none"
    /\ ~ChildOf(Last.of, Last.self)
    /\ pose[Last.self].position # Pre[Last.self].position
    /\ pose[Last.self].rotation # Pre[Last.self].rotation

\* C4: with relative_to_child = True, the pose self ends with does not
\* depend on a translation or rotation applied to self before the call:
\* the same align, made after self.translate(v) and self.rotate(q), ends
\* with the same position and rotation of self.
C4_PriorMoveUndone ==
    (Called("align") /\ Last.rel /\ ~ChildOf(Last.of, Last.self)) =>
        \A v \in {Zero3, <<0, 3, -1>>}, q \in {QIdentity, Rz90} :
            LET moved == rotate(translate(Pre, Last.self, v), Last.self, q)
                other == align(moved, Last.self, Last.my, Last.my_normal,
                               Last.my_tangent, Last.at, Last.at_normal,
                               Last.at_tangent, Last.of, Last.rel)
            IN  /\ get_position(other.ps, Last.self)
                     = get_position(pose, Last.self)
                /\ get_rotation(other.ps, Last.self)
                     = get_rotation(pose, Last.self)

(***************************************************************************)
(* Claims about PosableGroup, checked under SpecGroup and SpecShared.      *)
(***************************************************************************)
\* the children the last call on a group moved
LastAffected == get_affected_posables(Last.self)
AffectedSet == {LastAffected[i] : i \in 1..Len(LastAffected)}

\* the pose (p, q) of a child of a group at (g, R), after the group is
\* set to rotation r
Turned(p, q, g, R, r) ==
    P(VAdd(QRotate(r, QRotate(conjugated(R), VSub(p, g))), g),
      QMul(QMul(r, conjugated(R)), q))

\* C5 as claimed: after group.translate(v), respectively group.rotate(q),
\* each of the two children has the position and rotation that the same
\* translate(v), respectively rotate(q), on the child alone gives it.
C5_AsIfEachChildMoved ==
    /\ (Called("translate") /\ Last.self = "group") =>
          \A c \in {"child1", "child2"} :
              pose[c] = translate(Pre, c, Last.v)[c]
    /\ (Called("rotate") /\ Last.self = "group") =>
          \A c \in {"child1", "child2"} :
              pose[c] = rotate(Pre, c, Last.q)[c]

\* C5 as amended: after group.translate(v) each child has the pose that
\* translate(v) on the child alone gives it; after group.rotate(q) each
\* child has the rotation that rotate(q) on the child alone gives it, and
\* its position p has become q * (p - g) + g, g the position of the group.
C5_GroupMoveOnChildren ==
    /\ (Called("translate") /\ Last.self = "group") =>
          \A c \in {"child1", "child2"} :
              pose[c] = translate(Pre, c, Last.v)[c]
    /\ (Called("rotate") /\ Last.self = "group") =>
          \A c \in {"child1", "child2"} :
              /\ pose[c].rotation = rotate(Pre, c, Last.q)[c].rotation
              /\ pose[c].position =
                    VAdd(QRotate(Last.q, VSub(Pre[c].position,
                                              Pre["group"].position)),
                         Pre["group"].position)

C5_Witness ==
    /\ Called("rotate")
    /\ Last.self = "group"
    /\ Pre["group"].rotation # QIdentity
    /\ Pre["child1"].position # Pre["child2"].position
    /\ pose["child1"].position # Pre["child1"].position
    /\ pose["child2"].position # Pre["child2"].position

C8_SimultaneousUpdate ==
    /\ (Called("set_position") /\ Last.self \in Groups) =>
          \A c \in AffectedSet :
              /\ get_position(pose, c) =
                    VAdd(get_position(Pre, c),
                         VSub(Last.v, Pre[Last.self].position))
              /\ get_rotation(pose, c) = get_rotation(Pre, c)
    /\ (Called("set_rotation") /\ Last.self \in Groups) =>
          \A c \in AffectedSet :
              P(get_position(pose, c), get_rotation(pose, c)) =
                  Turned(get_position(Pre, c), get_rotation(Pre, c),
                         Pre[Last.self].position, Pre[Last.self].rotation,
                         Last.q)

(***************************************************************************)
(* Claims about frames and rotations, checked under SpecFrame.             *)
(***************************************************************************)
\* C9: converting a vector to the parent frame and back to the local frame,
\* or to the local frame and back to the parent frame, gives the vector
\* again, for directions and for points.
C9_FrameRoundTrip ==
    /\ Called("to_parent_direction") =>
          to_local_direction(pose, Last.self, Last.out) = Last.v
    /\ Called("to_local_direction") =>
          to_parent_direction(pose, Last.self, Last.out) = Last.v
    /\ Called("to_parent_frame") =>
          to_local_frame(pose, Last.self, Last.out) = Last.v
    /\ Called("to_local_frame") =>
          to_parent_frame(pose, Last.self, Last.out) = Last.v

C9_Witness ==
    /\ Called("to_local_frame")
    /\ Last.out # Last.v
    /\ get_rotation(pose, Last.self) = R111
    /\ get_position(pose, Last.self) # Zero3

\* C10: rotate_around(axis, t1) followed by rotate_around(axis, t2), the
\* axis given in the parent frame, leaves the posable with the rotation
\* (the image of every vector under to_parent_direction) that one
\* rotate_around(axis, t1 + t2) from the same start gives.
C10_RotationComposition ==
    (/\ Len(hist) >= 2
     /\ Last.op = "rotate_around"
     /\ hist[Len(hist) - 1].op = "rotate_around"
     /\ hist[Len(hist) - 1].self = Last.self
     /\ hist[Len(hist) - 1].v = Last.v
     /\ ~Last.rel
     /\ ~hist[Len(hist) - 1].rel) =>
        LET once == rotate_around(trail[Len(trail) - 1], Last.self, Last.v,
                                  hist[Len(hist) - 1].angle + Last.angle,
                                  FALSE)
        IN  \A v \in Basis \cup TestVecs :
                to_parent_direction(pose, Last.self, v)
                    = to_parent_direction(once, Last.self, v)

C10_Witness ==
    /\ Len(hist) >= 2
    /\ Last.op = "rotate_around"
    /\ hist[Len(hist) - 1].op = "rotate_around"
    /\ hist[Len(hist) - 1].self = Last.self
    /\ hist[Len(hist) - 1].v = Last.v
    /\ ~Last.rel
    /\ ~hist[Len(hist) - 1].rel
    /\ Last.angle = 3
    /\ hist[Len(hist) - 1].angle = 2
    /\ Last.v = <<MaxLen, 0, 0>>
    /\ trail[Len(trail) - 1][Last.self].rotation = R111

\* the sum of the translations of the translate calls among calls 1..i
RECURSIVE SumTranslations(_)
SumTranslations(i) ==
    IF i = 0 THEN Zero3
    ELSE IF hist[i].op = "translate"
         THEN VAdd(SumTranslations(i - 1), hist[i].v)
         ELSE SumTranslations(i - 1)

\* q_m * ... * q_1 * r over the rotate calls among calls 1..i
RECURSIVE ProductRotations(_, _)
ProductRotations(i, r) ==
    IF i = 0 THEN r
    ELSE IF hist[i].op = "rotate"
         THEN QMul(hist[i].q, ProductRotations(i - 1, r))
         ELSE ProductRotations(i - 1, r)

\* the run so far is translate and rotate calls on the link only
OnlyLinkMoves ==
    \A i \in 1..Len(hist) :
        hist[i].self = "link" /\ hist[i].op \in {"translate", "rotate"}

\* C11: after any sequence of translate and rotate calls on a plain posable
\* its position is the initial position plus the sum of the translations and
\* its rotation is q_m * ... * q_1 * the initial rotation; each translate(v)
\* is set_position(get_position() + v), each rotate(q) is
\* set_rotation(q * get_rotation()).
C11_TranslateRotateSequence ==
    (Len(hist) > 0 /\ OnlyLinkMoves) =>
        /\ pose["link"].position =
              VAdd(trail[1]["link"].position, SumTranslations(Len(hist)))
        /\ pose["link"].rotation =
              ProductRotations(Len(hist), trail[1]["link"].rotation)
        /\ Last.op = "translate" =>
              pose = Posable_set_position(Pre, "link",
                         VAdd(Pre["link"].position, Last.v))
        /\ Last.op = "rotate" =>
              pose = Posable_set_rotation(Pre, "link",
                         QMul(Last.q, Pre["link"].rotation))

C11_Witness ==
    /\ Len(hist) = 2
    /\ OnlyLinkMoves
    /\ hist[1].op = "rotate"
    /\ hist[2].op = "translate"
    /\ trail[1]["link"].rotation = Rz90
    /\ pose["link"].rotation # trail[1]["link"].rotation

\* C12: rotate_around(axis, angle, relative_to_child) on a posable with
\* rotation R leaves it with rotation from_angle_axis(angle, R * axis) * R
\* when relative_to_child is true and from_angle_axis(angle, axis) * R when
\* it is false; its position is unchanged.
C12_RotateAroundAxisFrame ==
    (Called("rotate_around") /\ Last.self = "link") =>
        LET R == Pre["link"].rotation
            ax == IF Last.rel THEN QRotate(R, Last.v) ELSE Last.v
        IN  /\ pose["link"].rotation =
                  QMul(from_angle_axis(Last.angle, ax), R)
            /\ pose["link"].position = Pre["link"].position

C12_Witness ==
    /\ Called("rotate_around")
    /\ Last.self = "link"
    /\ Last.rel
    /\ Pre["link"].rotation = R111
    /\ QRotate(Pre["link"].rotation, Last.v) # Last.v
    /\ Last.angle = 1
    /\ pose["link"].rotation
          # QMul(from_angle_axis(Last.angle, Last.v), Pre["link"].rotation)

\* the call before the last one, and the poses before it
Prev == hist[Len(hist) - 1]
PrePrev == trail[Len(trail) - 1]

\* C13: rotating by q1 * q2 applies q2 first and then q1:
\* (q1 * q2) * v = q1 * (q2 * v), seen on a link with rotation q2 that is
\* rotated by q1 and then asked for the parent direction of v; and the
\* product is associative: q2 * (q1 * r) = (q2 * q1) * r, seen on a link
\* with rotation r that is rotated by q1 and then by q2.
C13_CompositionOrder ==
    /\ (/\ Len(hist) >= 2
        /\ Prev.op = "rotate" /\ Prev.self = "link"
        /\ Last.op = "to_parent_direction" /\ Last.self = "link") =>
          Last.out = QRotate(Prev.q, QRotate(PrePrev["link"].rotation, Last.v))
    /\ (/\ Len(hist) >= 2
        /\ Prev.op = "rotate" /\ Prev.self = "link"
        /\ Last.op = "rotate" /\ Last.self = "link") =>
          pose["link"].rotation =
              QMul(QMul(Last.q, Prev.q), PrePrev["link"].rotation)

\* a link rotated by q1 and then by q2 whose rotation is not the one the
\* other order gives: the product is not commutative
C13_Witness ==
    /\ Len(hist) >= 2
    /\ Prev.op = "rotate" /\ Prev.self = "link"
    /\ Last.op = "rotate" /\ Last.self = "link"
    /\ PrePrev["link"].rotation = Rz90
    /\ get_matrix(pose["link"].rotation)
          # get_matrix(QMul(QMul(Prev.q, Last.q), PrePrev["link"].rotation))
(***************************************************************************)
(* Claims about the Inertial of the shapes, checked under SpecInertia.     *)
(***************************************************************************)
\* the last call is get_inertial of a shape of class cls
AskedInertia(cls) == Called("get_inertial") /\ Last.self \in cls

\* the three cross terms of an Inertial are 0
NoCrossTerms(i) ==
    i.ixy = RatInt(0) /\ i.ixz = RatInt(0) /\ i.iyz = RatInt(0)

\* C15: get_inertial of Box(x, y, z) with mass m returns an Inertial of mass
\* m with 12 ixx = m (y^2 + z^2), 12 iyy = m (x^2 + z^2),
\* 12 izz = m (x^2 + y^2) and cross terms 0, whatever the pose of the box.
C15_BoxInertia ==
    AskedInertia(Boxes) =>
        LET x == shape[Last.self].size[1]
            y == shape[Last.self].size[2]
            z == shape[Last.self].size[3]
            m == Last.mass
            i == Last.inertial
        IN  /\ Last.err = "none"
            /\ i.some
            /\ i.mass = RatInt(m)
            /\ RatMul(RatInt(12), i.ixx) = RatInt(m * (y * y + z * z))
            /\ RatMul(RatInt(12), i.iyy) = RatInt(m * (x * x + z * z))
            /\ RatMul(RatInt(12), i.izz) = RatInt(m * (x * x + y * y))
            /\ NoCrossTerms(i)

\* the last call asks a cylinder for its inertia as a tube without r1
TubeWithoutR1(c) == c.kwargs.tube /\ ~c.kwargs.has_r1

\* C16: get_inertial of Cylinder(r, l) with mass m returns
\* 12 ixx = 12 iyy = m (3 e + l^2), 2 izz = m e and cross terms 0, where e
\* is r^2 for a solid cylinder and r^2 + r1^2 for a tube of inner radius r1.
C16_CylinderInertia ==
    (AskedInertia(Cylinders) /\ ~TubeWithoutR1(Last)) =>
        LET r == shape[Last.self].radius
            l == shape[Last.self].length
            r1 == Last.kwargs.r1
            e == IF Last.kwargs.tube THEN r * r + r1 * r1 ELSE r * r
            m == Last.mass
            i == Last.inertial
        IN  /\ Last.err = "none"
            /\ i.some
            /\ RatMul(RatInt(12), i.ixx) = RatInt(m * (3 * e + l * l))
            /\ i.iyy = i.ixx
            /\ RatMul(RatInt(2), i.izz) = RatInt(m * e)
            /\ NoCrossTerms(i)

\* a dimension of the shape sh is zero or negative
BadShape(g, sh) ==
    \/ g \in Boxes /\ \E k \in 1..3 : sh.size[k] <= 0
    \/ g \in Cylinders /\ (sh.radius <= 0 \/ sh.length <= 0)
    \/ g \in Spheres /\ sh.radius <= 0

\* C17: creating a Box, Cylinder or Sphere with a zero or negative
\* dimension, radius or length, or asking one for its inertia with such a
\* dimension or with a zero or negative mass, is rejected with an error and
\* yields no Inertial.
C17_ShapeInputsValidated ==
    /\ (Called("Box") \/ Called("Cylinder") \/ Called("Sphere"))
          => (BadShape(Last.self, Shape(Last.size, Last.radius, Last.length))
                 => Last.err # "none")
    /\ AskedInertia(Shapes)
          => ((BadShape(Last.self, shape[Last.self]) \/ Last.mass <= 0)
                 => (Last.err # "none" /\ ~Last.inertial.some))

\* the call a step makes
Made == hist'[Len(hist')]

\* a step leaves the shapes, the poses and the links as they are
ObjectsUnchanged == UNCHANGED <<shape, pose, elements, geometry, inertial>>

\* C18: asking a Cylinder for its inertia as a tube without r1, directly or
\* through Link.make_geometry, fails at that call, returns no Inertial and
\* leaves the cylinder and the link unchanged; when tube is false r1 is not
\* required and, if given, makes no difference.
C18_TubeNeedsInnerRadius ==
    [][/\ (Made.op = "get_inertial" /\ Made.self \in Cylinders)
            => IF TubeWithoutR1(Made)
               THEN /\ Made.err # "none"
                    /\ ~Made.inertial.some
                    /\ ObjectsUnchanged
               ELSE Made.kwargs.tube
                    \/ /\ Made.err = "none"
                       /\ Made.inertial.some
                       /\ Made.inertial
                             = Cylinder_get_inertial(shape[Made.self],
                                   Made.mass, NoKwargs).inertial
       /\ (/\ Made.op = "make_geometry"
           /\ Made.of \in Cylinders
           /\ Made.inertia
           /\ TubeWithoutR1(Made))
            => (Made.err # "none" /\ ObjectsUnchanged)]_vars

\* make_geometry for a tube without r1 has failed on a link that had a
\* visual already
C18_Witness ==
    /\ Called("make_geometry")
    /\ Last.of \in Cylinders
    /\ Last.inertia
    /\ TubeWithoutR1(Last)
    /\ Last.err = "AttributeError"
    /\ elements["link"] = <<"visual">>

\* C19: get_inertial of a base Geometry ends in NotImplementedError for
\* every mass and every keyword argument and returns nothing;
\* Link.make_geometry with inertia=True on such a geometry fails with that
\* error before a collision or a visual is added to the link.
C19_BaseGeometryNotSupported ==
    [][/\ (Made.op = "get_inertial" /\ Made.self \in Geometries)
            => /\ Made.err = "NotImplementedError"
               /\ ~Made.inertial.some
       /\ (/\ Made.op = "make_geometry"
           /\ Made.of \in Geometries
           /\ Made.inertia)
            => /\ Made.err = "NotImplementedError"
               /\ elements' = elements
               /\ geometry' = geometry
               /\ inertial' = inertial]_vars

\* make_geometry with inertia, collision and visual has failed on a base
\* Geometry
C19_Witness ==
    /\ Called("make_geometry")
    /\ Last.of \in Geometries
    /\ Last.inertia /\ Last.collision /\ Last.visual
    /\ Last.err = "NotImplementedError"

(***************************************************************************)
(* Claims about the compound, checked under SpecInertia.                   *)
(***************************************************************************)
\* the compound is made of all the parts of one of the scenarios, each with
\* the size, the pose and the mass the scenario gives it
Reconstructed ==
    \E k \in DOMAIN Scenarios :
        LET sc == Scenarios[k]
        IN  /\ geometries["compound"] = ScenarioParts(sc, Len(sc))
            /\ \A i \in 1..Len(sc) :
                  /\ shape[SubNames[i]] = Shape(sc[i].size, 0, 0)
                  /\ pose[SubNames[i]] = sc[i].pose

\* the Inertial of a single Box of the given size and mass
BoxInertial(size, m) ==
    [some |-> TRUE, mass |-> RatInt(m),
     ixx |-> Rat(m * (size[2] * size[2] + size[3] * size[3]), 12),
     ixy |-> RatInt(0), ixz |-> RatInt(0),
     iyy |-> Rat(m * (size[1] * size[1] + size[3] * size[3]), 12),
     iyz |-> RatInt(0),
     izz |-> Rat(m * (size[1] * size[1] + size[2] * size[2]), 12)]

\* C14: a compound of sub-boxes that together make up a single Box of mass
\* m, with the mass shared in proportion to volume (two full-size halves at
\* one place, two boxes stacked along z, boxes turned by a quarter turn and
\* moved into place), has the mass m and the inertia tensor (ixx, iyy, izz
\* and the three cross terms) of that single Box.
C14_CompoundEqualsSimple ==
    (Called("get_inertial") /\ Last.self = "compound" /\ Reconstructed) =>
        /\ Last.err = "none"
        /\ Last.inertial = BoxInertial(SimpleSize, SimpleMass)

(***************************************************************************)
(* Claims about vectors of length zero, checked under SpecVector.          *)
(***************************************************************************)
\* a normal or a tangent of the last align call is of length zero
LastZeroDirection ==
    \E d \in {Last.my_normal, Last.my_tangent, Last.at_normal,
              Last.at_tangent} : Norm2(d) = 0

\* C20: normalize() and normalized() on a vector of length zero fail with
\* an error instead of returning a vector; a normal or tangent of length
\* zero given to align is rejected with an error before a pose is written,
\* and a vector of length zero given to vectors_orthogonal or
\* vectors_parallel is rejected or found not to pass the test.
C20_ZeroVectorRejected ==
    /\ ((Called("normalize") \/ Called("normalized")) /\ Norm2(Last.v) = 0)
          => (Last.err # "none" /\ ~Last.nan)
    /\ ((Called("vectors_orthogonal") \/ Called("vectors_parallel"))
          /\ (Norm2(Last.my_normal) = 0 \/ Norm2(Last.my_tangent) = 0))
          => (Last.err # "none" \/ ~Last.held)
    /\ (Called("align") /\ LastZeroDirection)
          => (Last.err # "none" /\ pose = Pre)

(***************************************************************************)
(* Claims about the parallelism test, checked under SpecParallel.          *)
(***************************************************************************)
\* a vector times a whole number
Scaled(k, a) == <<k * a[1], k * a[2], k * a[3]>>

\* the angle between a and b, or between a and -b, has a cosine of
\* 1 - EPSILON or more: by |a x b|^2 = |a|^2 |b|^2 sin^2, that is
\* |a x b|^2 <= |a|^2 |b|^2 (2 EPSILON - EPSILON^2)
SmallAngle(a, b) == NearOne(Norm2(Cross(a, b)), Norm2(a) * Norm2(b))

\* C21: for non-zero a and b, vector_parallellism is PARALLEL exactly when
\* the dot product d of the normalized vectors is 1 - EPSILON or more,
\* OPPOSITE exactly when d is -1 + EPSILON or less and NOT_PARALLEL
\* otherwise; vectors_parallel is true for PARALLEL only; neither depends
\* on the lengths of a and b.
C21_ParallelismClassification ==
    LET a == Last.my_normal
        b == Last.my_tangent
        class == IF SmallAngle(a, b) /\ Dot(a, b) > 0 THEN PARALLEL
                 ELSE IF SmallAngle(a, b) /\ Dot(a, b) < 0 THEN OPPOSITE
                 ELSE NOT_PARALLEL
    IN  /\ Called("vector_parallellism") =>
              /\ Last.ret \in {PARALLEL, OPPOSITE, NOT_PARALLEL}
              /\ Last.ret = class
              /\ \A k \in 1..MaxLen, m \in 1..MaxLen :
                    vector_parallellism(Scaled(k, a), Scaled(m, b)) = Last.ret
        /\ Called("vectors_parallel") =>
              /\ Last.held <=> (class = PARALLEL)
              /\ \A k \in 1..MaxLen, m \in 1..MaxLen :
                    vectors_parallel(Scaled(k, a), Scaled(m, b)) = Last.held

\* the three classes have been returned, PARALLEL for a pair that is not on
\* one line, and a pair just past the threshold was found NOT_PARALLEL
C21_Witness ==
    /\ Len(hist) = MaxSteps
    /\ hist[1].op = "vector_parallellism"
    /\ hist[1].ret = PARALLEL
    /\ Cross(hist[1].my_normal, hist[1].my_tangent) # Zero3
    /\ Last.op = "vector_parallellism"
    /\ Last.ret = NOT_PARALLEL
    /\ Last.my_normal = <<223, 1, 0>>

(***************************************************************************)
(* Claims about structures, checked under SpecStructure.                   *)
(***************************************************************************)
\* the pose store the call c leaves when it is made on n, from ps
CallOn(ps, n, c) ==
    CASE c.op = "set_position" -> set_position(ps, n, c.v)
      [] c.op = "set_rotation" -> set_rotation(ps, n, c.q)
      [] c.op = "translate" -> translate(ps, n, c.v)
      [] c.op = "rotate" -> rotate(ps, n, c.q)
      [] c.op = "rotate_around" -> rotate_around(ps, n, c.v, c.angle, c.rel)
      [] OTHER -> ps

\* C22: a Structure s with geometry g has the position and the rotation of
\* g after any sequence of set_position, set_rotation, translate, rotate
\* and rotate_around calls on s or on g, and each such call on s leaves
\* what the same call on g leaves.
C22_StructureDelegates ==
    /\ \A s \in Structures :
          /\ get_position(pose, s) = pose[geometry[s]].position
          /\ get_rotation(pose, s) = pose[geometry[s]].rotation
    /\ IF Len(hist) = 0 THEN TRUE
       ELSE Last.self \in Structures
               => pose = CallOn(Pre, geometry[Last.self], Last)

\* the collision was turned about an axis of its own frame, after an
\* earlier call had moved its geometry
C22_Witness ==
    /\ Len(hist) = MaxSteps
    /\ Last.op = "rotate_around" /\ Last.rel
    /\ Last.self = "collision"
    /\ hist[1].op = "translate"
    /\ Pre["geometry"].rotation # QIdentity
    /\ to_parent_direction(Pre, "collision", Last.v) # Last.v
    /\ pose["geometry"] # Pre["geometry"]

(***************************************************************************)
(* Claims about compounds of compounds, empty compounds and compounds      *)
(* that are moved, checked under SpecCompound.                             *)
(***************************************************************************)
\* the compound c has a part that is a compound itself
HasNested(c) ==
    \E i \in 1..Len(geometries[c]) : geometries[c][i].geometry \in Compounds

\* the first i entries of geoms, each compound among them replaced by its
\* own entries
RECURSIVE FlatEntries(_, _)
FlatEntries(geoms, i) ==
    IF i = 0 THEN <<>>
    ELSE FlatEntries(geoms, i - 1)
            \o (IF geoms[i].geometry \in Compounds
                THEN geometries[geoms[i].geometry]
                ELSE <<geoms[i]>>)

\* the entries of geoms, last first
Reversed(geoms) == [i \in 1..Len(geoms) |-> geoms[Len(geoms) + 1 - i]]

\* C23: get_inertial of a compound with a part that is a compound itself
\* succeeds and returns the mass and the six tensor entries of the flat
\* compound that holds all the leaf geometries at the same poses with the
\* same masses, and the result does not depend on the order in which the
\* parts were added.
C23_NestedCompoundComposes ==
    (Called("get_inertial") /\ Last.self \in Compounds /\ HasNested(Last.self)) =>
        LET geoms == geometries[Last.self]
            flat == FlatEntries(geoms, Len(geoms))
        IN  /\ Last.err = "none"
            /\ Last.inertial.some
            /\ Last.inertial
                  = CompoundGeometry_get_inertial(pose, shape, Last.self,
                                                  flat).inertial
            /\ Last.inertial
                  = CompoundGeometry_get_inertial(pose, shape, Last.self,
                                                  Reversed(flat)).inertial

\* i_final as the parallel-axis theorem gives it for the first i entries,
\* all boxes, about the centre cm
RECURSIVE ExpectedTensor(_, _, _, _, _)
ExpectedTensor(ps, self, geoms, i, cm) ==
    IF i = 0 THEN RatMZero
    ELSE RatMAdd(ExpectedTensor(ps, self, geoms, i - 1, cm),
                 EntryTensor(ps, self, geoms[i],
                             BoxInertial(shape[geoms[i].geometry].size,
                                         geoms[i].mass),
                             cm))

\* C24: get_inertial of a compound of boxes reports the sum of the masses
\* of its entries and the sum of their tensors, each turned into the frame
\* of the compound and shifted by the parallel-axis theorem to the
\* mass-weighted average of the centres; a compound with no entries divides
\* by nothing and reports the mass 0 and a tensor of zeros.
C24_CompoundMassAndOffset ==
    (Called("get_inertial") /\ Last.self \in Compounds /\ ~HasNested(Last.self)) =>
        LET geoms == geometries[Last.self]
            cm == center_mass(pose, Last.self, geoms)
        IN  /\ Last.err = "none"
            /\ Last.inertial.some
            /\ Last.inertial.mass = RatInt(total_mass(geoms, Len(geoms)))
            /\ TensorOf(Last.inertial)
                  = ExpectedTensor(pose, Last.self, geoms, Len(geoms), cm)
            /\ Len(geoms) = 0 =>
                  /\ Last.inertial.mass = RatInt(0)
                  /\ TensorOf(Last.inertial) = RatMZero

\* the calls that move a compound as a whole
RigidMoves == {"set_position", "set_rotation", "translate", "rotate"}

\* the place and the rotation of g in the frame of the compound c
PlaceIn(ps, c, g) ==
    [position |-> to_sibling_frame(ps, g, Zero3, c),
     rotation |-> QMul(conjugated(get_rotation(ps, c)), get_rotation(ps, g))]

\* C29: translate, rotate, set_position and set_rotation on a compound move
\* every geometry that was registered through add_geometry with it, so
\* that each keeps its place and rotation in the frame of the compound and
\* get_inertial returns the same mass and tensor after the call as before.
C29_CompoundMovesRigidly ==
    IF Len(hist) = 0 THEN TRUE
    ELSE (Last.op \in RigidMoves /\ Last.self \in Compounds) =>
        LET c == Last.self
        IN  /\ \A i \in 1..Len(geometries[c]) :
                  PlaceIn(pose, c, geometries[c][i].geometry)
                     = PlaceIn(Pre, c, geometries[c][i].geometry)
            /\ CompoundGeometry_get_inertial(pose, shape, c, geometries[c])
                  = CompoundGeometry_get_inertial(Pre, shape, c,
                                                  geometries[c])

(***************************************************************************)
(* Claims about the tree of elements, checked under SpecTree.              *)
(***************************************************************************)
\* the places below n: a place is the list of child indices that leads to it
RECURSIVE PlacesBelow(_, _)
PlacesBelow(els, n) ==
    UNION {{<<i>>} \cup {<<i>> \o q : q \in PlacesBelow(els, els[n][i])} :
              i \in 1..Len(els[n])}

\* the node at a place below n
RECURSIVE NodeAt(_, _, _)
NodeAt(els, n, q) ==
    IF Len(q) = 1 THEN els[n][q[1]]
    ELSE NodeAt(els, els[n][q[1]], Tail(q))

\* document order: a node comes before what lies below it, and what lies
\* below an earlier child comes before a later child
Before(q, r) ==
    \/ Len(q) < Len(r) /\ \A j \in 1..Len(q) : q[j] = r[j]
    \/ \E k \in 1..Len(q) :
          /\ k <= Len(r)
          /\ q[k] < r[k]
          /\ \A j \in 1..(k - 1) : q[j] = r[j]

\* the places the filter call c is to return, in the tree els
Wanted(els, c) ==
    {q \in IF c.recursive THEN PlacesBelow(els, c.self)
           ELSE {<<i>> : i \in 1..Len(els[c.self])} :
        isinstance(NodeAt(els, c.self, q), c.cls)}

\* C25: get_elements_of_type(T), like get_elements(T), returns exactly the
\* direct children that are instances of T or of a subclass of T, in the
\* order they were added; in recursive mode it returns every descendant
\* that is such an instance, in document order; no element is returned
\* twice and no child list is changed.
C25_FilterByType ==
    [][(Made.op \in {"get_elements", "get_elements_of_type"}) =>
          LET want == Wanted(elements, Made)
          IN  /\ Len(Made.els) = Cardinality(want)
              /\ \A q \in want :
                    Made.els[1 + Cardinality({r \in want : Before(r, q)})]
                       = NodeAt(elements, Made.self, q)
              /\ \A i \in 1..Len(Made.els), j \in 1..Len(Made.els) :
                    i # j => Made.els[i] # Made.els[j]
              /\ elements' = elements]_vars

\* the places of c in the child lists
PlacesOf(c) ==
    {<<p, i>> \in Nodes \X (1..Cardinality(Nodes)) :
        IF i <= Len(elements[p]) THEN elements[p][i] = c ELSE FALSE}

\* the nodes that hold the geometry g: the structures of the tree whose
\* geometry it is and the nodes that have it in their child list
OwnersOf(g) ==
    {s \in Structures : HasParent(s) /\ geometry[s] = g}
       \cup {p \in Nodes : \E i \in 1..Len(elements[p]) : elements[p][i] = g}

\* C30: after any sequence of add_element, add_elements and make_geometry
\* calls every node is in the child list of at most one parent, at most
\* once, and no geometry is held by two nodes.
C30_TreeOwnership ==
    /\ \A c \in Nodes : Cardinality(PlacesOf(c)) <= 1
    /\ \A g \in Geometries \cup Shapes : Cardinality(OwnersOf(g)) <= 1

(***************************************************************************)
(* Claims about sequences of moves of the group, checked under SpecRigid.  *)
(***************************************************************************)
\* the poses before the first call
Begin == trail[1]

\* c is a child of the group that a move of the group is to leave alone
LeftAlone(c) == ~IsPosable(c) \/ ~PARENT_FRAME(c)

\* C26: after any sequence of moves of a group, every direct child whose
\* PARENT_FRAME is false and every child that is no Posable has the pose
\* and the children it had before the sequence.
C26_OnlyAffectedWritten ==
    IF Len(hist) = 0 THEN TRUE
    ELSE \A i \in 1..Len(elements["group"]) :
            LET c == elements["group"][i]
            IN  LeftAlone(c) =>
                   /\ IsPosable(c) => pose[c] = Begin[c]
                   /\ elements[c] = SceneElements[c]

\* the group was turned and then aligned, its two links have moved and
\* the joint has not
C26_Witness ==
    /\ Len(hist) = MaxSteps
    /\ hist[1].op = "set_rotation"
    /\ Last.op = "align"
    /\ Last.err = "none"
    /\ pose["child1"] # Begin["child1"]
    /\ pose["child2"] # Pre["child2"]
    /\ pose["joint"] = Begin["joint"]
    /\ Begin["joint"].rotation # QIdentity

\* the pose of c as seen from the stored pose of the group g
RelativePose(ps, g, c) ==
    P(QRotate(conjugated(ps[g].rotation),
              VSub(get_position(ps, c), ps[g].position)),
      QMul(conjugated(ps[g].rotation), get_rotation(ps, c)))

\* the direct children of g that are Posables in the parent frame
AffectedChildren(g) ==
    {elements[g][i] : i \in {j \in 1..Len(elements[g]) :
                                ~LeftAlone(elements[g][j])}}

\* C27: after any sequence of set_position, set_rotation, translate,
\* rotate, rotate_around and align calls on a group G, every affected
\* child c has the relative pose conj(G.rotation) * (c.position -
\* G.position), conj(G.rotation) * c.rotation it had before the sequence.
C27_GroupIsRigid ==
    IF Len(hist) = 0 THEN TRUE
    ELSE \A c \in AffectedChildren("group") :
            RelativePose(pose, "group", c) = RelativePose(Begin, "group", c)

\* a rotate_around about an axis of the group's own frame, then a
\* set_position: the group and its children are somewhere else
C27_Witness ==
    /\ Len(hist) = MaxSteps
    /\ hist[1].op = "rotate_around" /\ hist[1].rel
    /\ Last.op = "set_position"
    /\ Begin["group"].rotation # QIdentity
    /\ pose["group"].rotation # Begin["group"].rotation
    /\ pose["group"].position # Begin["group"].position
    /\ \A c \in AffectedChildren("group") : pose[c] # Begin[c]

\* C28: when a group holds another group as an affected child,
\* set_position(p) on the outer group, at g, moves every affected child of
\* the inner group by p - g, and set_rotation(r) on the outer group, at g
\* with rotation R, takes such a grandchild from (p, q) to
\* r * (conj(R) * (p - g)) + g with rotation r * conj(R) * q: each
\* grandchild is transformed once.
C28_NestedGroups ==
    IF Len(hist) = 0 THEN TRUE
    ELSE \A c \in AffectedChildren(Last.self) \cap Groups :
         \A gc \in AffectedChildren(c) :
            /\ Last.op = "set_position" =>
                  pose[gc] = P(VAdd(Pre[gc].position,
                                    VSub(Last.v, Pre[Last.self].position)),
                               Pre[gc].rotation)
            /\ Last.op = "set_rotation" =>
                  pose[gc] = Turned(Pre[gc].position, Pre[gc].rotation,
                                    Pre[Last.self].position,
                                    Pre[Last.self].rotation, Last.q)

\* the outer group, turned and away from the origin, was given a new
\* rotation, and the child of the inner group has moved and turned
C28_Witness ==
    /\ Len(hist) = MaxSteps
    /\ Last.op = "set_rotation"
    /\ Last.self = "group"
    /\ Pre["group"].rotation # QIdentity
    /\ Pre["group"].position # Zero3
    /\ "grandchild" \in AffectedChildren("inner")
    /\ pose["grandchild"].position # Pre["grandchild"].position
    /\ pose["grandchild"].rotation # Pre["grandchild"].rotation

====
